---- MODULE Spec2Model ----
(***************************************************************************)
(* SQL-viewer: the tab registry, the result cache, the mock query          *)
(* execution service and the result pagination of the client-side SQL      *)
(* workbench (src/src/lib/stores.svelte.ts, the utilities module and the   *)
(* results panel component).                                               *)
(*                                                                         *)
(* Text (query text, tab names, cell values) is a sequence of one-         *)
(* character strings, so that trim, toLowerCase, includes and the regular  *)
(* expressions of the code are computed on the characters.                 *)
(* Identifiers made by generateId are opaque and unique; they are numbered *)
(* in the order they are made, and 0 stands for the empty string ''.       *)
(***************************************************************************)
EXTENDS Integers, Sequences, FiniteSets, TLC

VARIABLES
    tabs,            \* queryTabsStore: let tabs = $state<QueryTab[]>([])
    activeTabId,     \* queryTabsStore: let activeTabId = $state<string>('')
    results,         \* queryResultsStore: Map<string, QueryResult>, as its entries in insertion order
    isExecuting,     \* queryResultsStore: let isExecuting = $state(false)
    currentQueryId,  \* queryResultsStore: let currentQueryId = $state('')
    currentResult,   \* queryResultsStore: let currentResult = $state(null)
    localStorage,    \* the browser's key-value store, one field per key the stores use
    nextId,          \* the number of the next identifier generateId hands out
    initialized,     \* the page has mounted: the stores' initialize() have run
    inflight,        \* executeQuery calls suspended at their await, oldest first
    executedTabs,    \* the tab ids an execution has stored a result for (history)
    thrown,          \* an exception or a rejection has reached the caller of a store operation
    currentPage,     \* ResultsPanel: let currentPage = $state(1)
    rowsPerPage,     \* ResultsPanel: let rowsPerPage = $state(50)
    download,        \* the text of the file the last CSV export handed to the browser
    parsed,          \* the rows parseCSV made of a CSV text
    twin,            \* the tab registry and its storage in a browser whose every write succeeds
    settings,        \* settingsStore: theme, fontSize, autoSave, showLineNumbers, wordWrap
    savedQuery,      \* the text each tab held when the editor's saveQuery() last marked it saved (history)
    lastQuery,       \* the text of the execution started last for each tab (history), keyed by tab id
    pendingUpdate    \* QueryEditor: the timeout of debouncedUpdate, with the text it will pass on

vars == <<tabs, activeTabId, results, isExecuting, currentQueryId, currentResult,
          localStorage, nextId, initialized, inflight, executedTabs, thrown,
          currentPage, rowsPerPage, download, parsed, twin, settings,
          savedQuery, lastQuery,
          pendingUpdate>>

tabVars == <<tabs, activeTabId>>
resultVars == <<results, isExecuting, currentQueryId, currentResult, executedTabs, thrown>>
pageVars == <<currentPage, rowsPerPage>>
auxVars == <<download, parsed, twin, settings, savedQuery, lastQuery, pendingUpdate>>

(***************************************************************************)
(* Bounds of the model.                                                    *)
(***************************************************************************)
\* identifiers generateId may hand out in one run (tabs and results together)
MaxIds == 3
\* executeQuery calls that may be suspended at the same time
MaxInflight == 2
\* rows of the results the pagination is explored on
MaxRows == 5
\* page sizes the pagination is explored on, besides the panel's own 50
MaxPageSize == 3
MaxCellLen == 3
MaxCsvRows == 2

(***************************************************************************)
(* Text.                                                                   *)
(***************************************************************************)
EmptyText == <<>>
NoId == 0
Null == [absent |-> TRUE]

Min(a, b) == IF a < b THEN a ELSE b
Max(a, b) == IF a > b THEN a ELSE b

DefaultQuery == <<"S", "E", "L", "E", "C", "T", " ", "*", " ", "F", "R", "O", "M", " ", "o", "r", "d", "e", "r", "s", " ", "L", "I", "M", "I", "T", " ", "2", "0">>
SampleQueryName == <<"S", "a", "m", "p", "l", "e", " ", "Q", "u", "e", "r", "y">>
QueryPrefix == <<"Q", "u", "e", "r", "y", " ">>
UntitledQuery == <<"U", "n", "t", "i", "t", "l", "e", "d", " ", "Q", "u", "e", "r", "y">>
ErrorName == <<"E", "r", "r", "o", "r">>

Digits == <<"0", "1", "2", "3", "4", "5", "6", "7", "8", "9">>
IsDigit(c) == \E d \in 1..10 : Digits[d] = c
DigitValue(c) == (CHOOSE d \in 1..10 : Digits[d] = c) - 1
IsSpace(c) == c \in {" ", "\t", "\n", "\r"}

UpperCase == <<"A", "B", "C", "D", "E", "F", "G", "H", "I", "J", "K", "L", "M", "N", "O", "P", "Q", "R", "S", "T", "U", "V", "W", "X", "Y", "Z">>
LowerCase == <<"a", "b", "c", "d", "e", "f", "g", "h", "i", "j", "k", "l", "m", "n", "o", "p", "q", "r", "s", "t", "u", "v", "w", "x", "y", "z">>
LowerChar(c) == IF \E k \in 1..26 : UpperCase[k] = c
                THEN LowerCase[CHOOSE k \in 1..26 : UpperCase[k] = c]
                ELSE c
\* String.prototype.toLowerCase
toLowerCase(s) == [i \in 1..Len(s) |-> LowerChar(s[i])]

\* String.prototype.trim
trim(s) ==
    LET keep == {i \in 1..Len(s) : ~IsSpace(s[i])}
    IN  IF keep = {} THEN EmptyText
        ELSE SubSeq(s, CHOOSE i \in keep : \A j \in keep : i <= j,
                       CHOOSE i \in keep : \A j \in keep : j <= i)

StartsWithAt(s, i, pat) ==
    /\ i >= 1
    /\ i + Len(pat) - 1 <= Len(s)
    /\ SubSeq(s, i, i + Len(pat) - 1) = pat
\* String.prototype.includes
includes(s, pat) == \E i \in 1..(Len(s) + 1) : StartsWithAt(s, i, pat)

\* Number.prototype.toString of a natural number
RECURSIVE NatToText(_)
NatToText(n) == IF n < 10 THEN <<Digits[n + 1]>>
                ELSE NatToText(n \div 10) \o <<Digits[(n % 10) + 1]>>
\* parseInt of a run of decimal digits
RECURSIVE parseInt(_)
parseInt(ds) == IF ds = <<>> THEN 0
                ELSE 10 * parseInt(SubSeq(ds, 1, Len(ds) - 1)) + DigitValue(ds[Len(ds)])

(***************************************************************************)
(* The persistent key-value store.  JSON.stringify followed by JSON.parse  *)
(* keeps strings, numbers and booleans and turns a Date into its ISO       *)
(* string; a key that was never written reads as the caller's default      *)
(* ([] for the tab list and the result entries, '' for the active id).     *)
(***************************************************************************)
jsonTab(tab) == IF tab = [absent |-> TRUE] THEN tab
                ELSE [id |-> tab.id, name |-> tab.name, query |-> tab.query,
                      isActive |-> tab.isActive, isSaved |-> tab.isSaved,
                      hasChanges |-> tab.hasChanges]
jsonTabs(ts) == [i \in 1..Len(ts) |-> jsonTab(ts[i])]
jsonResult(r) == [r EXCEPT !.timestamp = <<"string", r.timestamp[2]>>]
jsonEntries(es) == [i \in 1..Len(es) |-> <<es[i][1], jsonResult(es[i][2])>>]

(***************************************************************************)
(* Tab registry (createQueryTabsStore).  Each operation maps the registry  *)
(* state st = [tabs, activeTabId, ls, nextId] to the state it leaves.      *)
(***************************************************************************)
TabIds(ts) == {ts[i].id : i \in 1..Len(ts)}
findIndex(ts, tabId) ==
    IF tabId \in TabIds(ts)
    THEN CHOOSE i \in 1..Len(ts) : ts[i].id = tabId /\ \A j \in 1..(i - 1) : ts[j].id # tabId
    ELSE 0

SelectSeqNotId(ts, tabId) == SelectSeq(ts, LAMBDA t : t.id # tabId)

\* saveToStorage of the tab registry
\* storage.set catches the exception of a failing localStorage.setItem; st.ok
\* tells whether the writes of this operation succeed
\* tabs.find(t => t.id === tabId)
getTab(ts, tabId) == IF tabId \in TabIds(ts) THEN ts[findIndex(ts, tabId)] ELSE Null

saveToStorage(st) ==
    IF st.ok
    THEN [st EXCEPT !.ls.queryTabs = jsonTabs(st.tabs),
                    !.ls.activeTabId = st.activeTabId]
    ELSE st

setActiveTab(st, tabId) ==
    saveToStorage([st EXCEPT
        !.tabs = [i \in 1..Len(st.tabs) |->
                     [st.tabs[i] EXCEPT !.isActive = (st.tabs[i].id = tabId)]],
        !.activeTabId = tabId])

\* a tab whose id is its position in the list
newTabCounted(st, name, initialQuery) ==
    [id |-> Len(st.tabs) + 1,
     name |-> IF name # EmptyText THEN name
              ELSE QueryPrefix \o NatToText(Len(st.tabs) + 1),
     query |-> initialQuery,
     isActive |-> FALSE,
     isSaved |-> FALSE,
     hasChanges |-> FALSE]
\* generateId: the id handed out and the registry state after it
newTab(st, name, initialQuery) ==
    [id |-> st.nextId,
     name |-> IF name # EmptyText THEN name
              ELSE QueryPrefix \o NatToText(Len(st.tabs) + 1),
     query |-> initialQuery,
     isActive |-> FALSE,
     isSaved |-> FALSE,
     hasChanges |-> FALSE]

\* createTab(name?, initialQuery?); an argument left out is the empty text
createTab(st, name, initialQuery) ==
    LET tab == newTab(st, name, initialQuery)
        st1 == [st EXCEPT !.tabs = Append(st.tabs, tab), !.nextId = st.nextId + 1]
    IN  saveToStorage(setActiveTab(st1, tab.id))

createDefaultTab(st) == createTab(st, SampleQueryName, DefaultQuery)

\* closeTab that leaves the list empty when the last tab goes
closeTabAndStop(st, tabId) ==
    LET tabIndex == findIndex(st.tabs, tabId)
        wasActive == st.tabs[tabIndex].isActive
        st1 == [st EXCEPT !.tabs = SelectSeqNotId(st.tabs, tabId)]
        newActiveIndex == Min(tabIndex - 1, Len(st1.tabs) - 1)
    IN  IF tabIndex = 0 THEN st
        ELSE IF wasActive /\ Len(st1.tabs) > 0
             THEN saveToStorage(setActiveTab(st1, st1.tabs[newActiveIndex + 1].id))
        ELSE saveToStorage(st1)

closeTab(st, tabId) ==
    LET tabIndex == findIndex(st.tabs, tabId)
        wasActive == st.tabs[tabIndex].isActive
        st1 == [st EXCEPT !.tabs = SelectSeqNotId(st.tabs, tabId)]
        newActiveIndex == Min(tabIndex - 1, Len(st1.tabs) - 1)
    IN  IF tabIndex = 0 THEN st
        ELSE IF wasActive /\ Len(st1.tabs) > 0
             THEN saveToStorage(setActiveTab(st1, st1.tabs[newActiveIndex + 1].id))
        ELSE IF Len(st1.tabs) = 0
             THEN saveToStorage(createDefaultTab(st1))
        ELSE saveToStorage(st1)

\* updateTabQuery that marks the tab changed whatever the text
updateTabQueryChanged(st, tabId, query) ==
    saveToStorage([st EXCEPT !.tabs = [i \in 1..Len(st.tabs) |->
        IF st.tabs[i].id = tabId
        THEN [st.tabs[i] EXCEPT !.query = query, !.hasChanges = TRUE]
        ELSE st.tabs[i]]])

updateTabQuery(st, tabId, query) ==
    saveToStorage([st EXCEPT !.tabs = [i \in 1..Len(st.tabs) |->
        IF st.tabs[i].id = tabId
        THEN [st.tabs[i] EXCEPT !.query = query,
                                !.hasChanges = (~st.tabs[i].isSaved \/ query # EmptyText)]
        ELSE st.tabs[i]]])

updateTabName(st, tabId, name) ==
    saveToStorage([st EXCEPT !.tabs = [i \in 1..Len(st.tabs) |->
        IF st.tabs[i].id = tabId
        THEN [st.tabs[i] EXCEPT !.name = name, !.hasChanges = TRUE]
        ELSE st.tabs[i]]])

\* a markTabAsSaved that does not write the list to storage
markTabAsSavedUnwritten(st, tabId) ==
    [st EXCEPT !.tabs = [i \in 1..Len(st.tabs) |->
        IF st.tabs[i].id = tabId
        THEN [st.tabs[i] EXCEPT !.isSaved = TRUE, !.hasChanges = FALSE]
        ELSE st.tabs[i]]]
markTabAsSaved(st, tabId) ==
    saveToStorage([st EXCEPT !.tabs = [i \in 1..Len(st.tabs) |->
        IF st.tabs[i].id = tabId
        THEN [st.tabs[i] EXCEPT !.isSaved = TRUE, !.hasChanges = FALSE]
        ELSE st.tabs[i]]])

CopySuffix == <<" ", "(", "C", "o", "p", "y", ")">>
\* a duplicateTab whose copy keeps the source's hasChanges
duplicateTabAsIs(st, tabId) ==
    LET sourceTab == getTab(st.tabs, tabId)
        copy == [sourceTab EXCEPT !.id = st.nextId,
                                  !.name = sourceTab.name \o CopySuffix,
                                  !.isActive = FALSE]
        st1 == [st EXCEPT !.tabs = Append(st.tabs, copy), !.nextId = st.nextId + 1]
    IN  IF sourceTab = Null THEN st
        ELSE saveToStorage(setActiveTab(st1, copy.id))
duplicateTab(st, tabId) ==
    LET sourceTab == getTab(st.tabs, tabId)
        copy == [sourceTab EXCEPT !.id = st.nextId,
                                  !.name = sourceTab.name \o CopySuffix,
                                  !.isActive = FALSE,
                                  !.hasChanges = TRUE]
        st1 == [st EXCEPT !.tabs = Append(st.tabs, copy), !.nextId = st.nextId + 1]
    IN  IF sourceTab = Null THEN st
        ELSE saveToStorage(setActiveTab(st1, copy.id))

\* Array.prototype.splice: a negative start counts from the end, and the
\* start is clamped into 0..length
spliceStart(start, len) == IF start < 0 THEN Max(len + start, 0) ELSE Min(start, len)
\* splice(start, 1) and splice(start, 0, item): the array they leave
spliceOut(ts, start) ==
    SubSeq(ts, 1, spliceStart(start, Len(ts)))
        \o SubSeq(ts, spliceStart(start, Len(ts)) + 2, Len(ts))
spliceIn(ts, start, item) ==
    SubSeq(ts, 1, spliceStart(start, Len(ts))) \o <<item>>
        \o SubSeq(ts, spliceStart(start, Len(ts)) + 1, Len(ts))
\* const [movedTab] = newTabs.splice(fromIndex, 1): undefined when the splice
\* removed nothing
movedTab(ts, fromIndex) ==
    IF spliceStart(fromIndex, Len(ts)) < Len(ts)
    THEN ts[spliceStart(fromIndex, Len(ts)) + 1]
    ELSE [absent |-> TRUE]
reorderTabs(st, fromIndex, toIndex) ==
    saveToStorage([st EXCEPT
        !.tabs = spliceIn(spliceOut(st.tabs, fromIndex), toIndex, movedTab(st.tabs, fromIndex))])

\* initialize() of the tab registry, in the browser
initialize(st) ==
    LET savedTabs == st.ls.queryTabs
        savedActiveId == st.ls.activeTabId
        fromStorage == [st EXCEPT
            !.tabs = savedTabs,
            !.activeTabId = IF savedActiveId # NoId THEN savedActiveId
                            ELSE savedTabs[1].id]
    IN  IF Len(st.tabs) > 0
        THEN IF Len(savedTabs) > 0 THEN fromStorage ELSE st
        ELSE IF Len(savedTabs) = 0
             THEN LET st1 == createDefaultTab(st)
                  IN  [st1 EXCEPT !.activeTabId = st.nextId]
             ELSE fromStorage

(***************************************************************************)
(* Query execution service (executeQuery of the utilities module).         *)
(***************************************************************************)
\* the delay is Math.random() * 200 + 50 milliseconds
MinDelayMs == 50
DelaySpanMs == 200
Delays == {MinDelayMs}

CustomerRows == 50
OrderRows == 100
ProductRows == 30
GenericRows == 25
MaxResultRows == 1000

\* a value Math.random() decides
Rnd == "random"

generateCustomerData ==
    [i \in 1..CustomerRows |-> [id |-> i, name |-> Rnd, email |-> Rnd, age |-> Rnd,
                                city |-> Rnd, total_orders |-> Rnd, created_date |-> Rnd]]
generateOrderData ==
    [i \in 1..OrderRows |-> [order_id |-> i, customer_id |-> Rnd, product_name |-> Rnd,
                             quantity |-> Rnd, price |-> Rnd, status |-> Rnd,
                             order_date |-> Rnd]]
generateProductData ==
    [i \in 1..ProductRows |-> [product_id |-> i, name |-> <<"Product", i>>, category |-> Rnd,
                               price |-> Rnd, stock_quantity |-> Rnd, rating |-> Rnd,
                               is_active |-> Rnd]]
generateGenericData ==
    [i \in 1..GenericRows |-> [id |-> i, name |-> <<"Item", i>>, value |-> Rnd,
                               description |-> <<"Description for item", i>>,
                               created_at |-> Rnd]]

generateMockDataOf(lowerQuery) ==
        IF includes(lowerQuery, <<"c", "u", "s", "t", "o", "m", "e", "r">>) \/ includes(lowerQuery, <<"u", "s", "e", "r">>)
        THEN generateCustomerData
        ELSE IF includes(lowerQuery, <<"o", "r", "d", "e", "r">>) \/ includes(lowerQuery, <<"p", "u", "r", "c", "h", "a", "s", "e">>)
        THEN generateOrderData
        ELSE IF includes(lowerQuery, <<"p", "r", "o", "d", "u", "c", "t">>) \/ includes(lowerQuery, <<"i", "t", "e", "m">>)
        THEN generateProductData
        ELSE generateGenericData
generateMockData(query) == generateMockDataOf(toLowerCase(query))

\* the rows parseCSV makes of the fetched /orders.csv: every value is text
Dataset ==
    << [orderID |-> <<"1">>, shipCountry |-> <<"F", "r", "a", "n", "c", "e">>, freight |-> <<"1", "5", "0">>],
       [orderID |-> <<"2">>, shipCountry |-> <<"f", "r", "a", "n", "c", "e">>, freight |-> <<"3", "2", ".", "3", "8">>],
       [orderID |-> <<"3">>, shipCountry |-> <<"G", "e", "r", "m", "a", "n", "y">>, freight |-> <<"1", "0", "0", ".", "5">>],
       [orderID |-> <<"4">>, shipCountry |-> <<"B", "r", "a", "z", "i", "l">>, freight |-> <<>>] >>

\* the end (exclusive) of the longest run of white space, and of digits, from i
SpaceEnd(s, i) ==
    CHOOSE j \in i..(Len(s) + 1) :
        /\ \A k \in i..(j - 1) : IsSpace(s[k])
        /\ j = Len(s) + 1 \/ ~IsSpace(s[j])
DigitEnd(s, i) ==
    CHOOSE j \in i..(Len(s) + 1) :
        /\ \A k \in i..(j - 1) : IsDigit(s[k])
        /\ j = Len(s) + 1 \/ ~IsDigit(s[j])
IsQuote(c) == c \in {"'", "\""}
UnquotedEnd(s, i) ==
    CHOOSE j \in i..(Len(s) + 1) :
        /\ \A k \in i..(j - 1) : ~IsQuote(s[k])
        /\ j = Len(s) + 1 \/ IsQuote(s[j])
\* the digits of the run that starts at d, as a number
DigitsAt(s, d) == parseInt(SubSeq(s, d, DigitEnd(s, d) - 1))

\* the first match of a regular expression: the least position of a set of
\* positions a match starts at, 0 if there is none
FirstOf(S) == IF S = {} THEN 0 ELSE CHOOSE i \in S : \A j \in S : i <= j

LimitKeyword == <<"l", "i", "m", "i", "t">>
CountryKeyword == <<"s", "h", "i", "p", "c", "o", "u", "n", "t", "r", "y">>
FreightKeyword == <<"f", "r", "e", "i", "g", "h", "t">>
WhereKeyword == <<"w", "h", "e", "r", "e">>

\* /limit\s+(\d+)/ at position i: where the digits start, 0 if no match at i
LimitAfterSpace(s, i, d) ==
    IF d > i + Len(LimitKeyword) /\ DigitEnd(s, d) > d THEN d ELSE 0
LimitDigitsAt(s, i) ==
    IF StartsWithAt(s, i, LimitKeyword)
    THEN LimitAfterSpace(s, i, SpaceEnd(s, i + Len(LimitKeyword)))
    ELSE 0
\* /shipcountry\s*=\s*['"]([^'"]+)['"]/ at position i: where the value starts
CountryAfterQuote(s, v, end) == IF end > v /\ end <= Len(s) THEN v ELSE 0
CountryAfterEquals(s, q) ==
    IF q <= Len(s) /\ IsQuote(s[q])
    THEN CountryAfterQuote(s, q + 1, UnquotedEnd(s, q + 1))
    ELSE 0
CountryAfterKeyword(s, e) ==
    IF e <= Len(s) /\ s[e] = "=" THEN CountryAfterEquals(s, SpaceEnd(s, e + 1)) ELSE 0
CountryValueAt(s, i) ==
    IF StartsWithAt(s, i, CountryKeyword)
    THEN CountryAfterKeyword(s, SpaceEnd(s, i + Len(CountryKeyword)))
    ELSE 0
\* /freight\s*>\s*(\d+)/ at position i: where the digits start
FreightAfterGreater(s, d) == IF DigitEnd(s, d) > d THEN d ELSE 0
FreightAfterKeyword(s, g) ==
    IF g <= Len(s) /\ s[g] = ">" THEN FreightAfterGreater(s, SpaceEnd(s, g + 1)) ELSE 0
FreightDigitsAt(s, i) ==
    IF StartsWithAt(s, i, FreightKeyword)
    THEN FreightAfterKeyword(s, SpaceEnd(s, i + Len(FreightKeyword)))
    ELSE 0

\* parseFloat of a text: [nan, num, den] with value num / den
FloatOf(neg, intDigits, fracDigits) ==
    IF intDigits = <<>> /\ fracDigits = <<>>
    THEN [nan |-> TRUE, num |-> 0, den |-> 1]
    ELSE [nan |-> FALSE,
          num |-> (IF neg THEN 0 - 1 ELSE 1)
                  * (parseInt(intDigits \o fracDigits)),
          den |-> 10 ^ Len(fracDigits)]
FloatFraction(s, neg, i, ie) ==
    FloatOf(neg, SubSeq(s, i, ie - 1),
            IF ie <= Len(s) /\ s[ie] = "."
            THEN SubSeq(s, ie + 1, DigitEnd(s, ie + 1) - 1)
            ELSE <<>>)
FloatDigits(s, neg, i) == FloatFraction(s, neg, i, DigitEnd(s, i))
FloatSign(s, b) ==
    FloatDigits(s, b <= Len(s) /\ s[b] = "-",
                IF b <= Len(s) /\ s[b] \in {"-", "+"} THEN b + 1 ELSE b)
parseFloat(s) == FloatSign(s, SpaceEnd(s, 1))
\* parseFloat(text) > threshold
FloatExceeds(f, threshold) == ~f.nan /\ f.num > threshold * f.den

\* Array.prototype.slice(start, end) with indices from 0
SliceIndex(n, k) == IF k < 0 THEN Max(n + k, 0) ELSE Min(k, n)
slice(a, start, end) == SubSeq(a, SliceIndex(Len(a), start) + 1, SliceIndex(Len(a), end))

HasField(row, f) == f \in DOMAIN row

LimitStart(lowerQuery) ==
    FirstOf({i \in 1..Len(lowerQuery) : LimitDigitsAt(lowerQuery, i) # 0})
applyLimitAt(data, lowerQuery, at) ==
    IF at # 0 THEN slice(data, 0, DigitsAt(lowerQuery, LimitDigitsAt(lowerQuery, at)))
    ELSE data
applyLimit(data, lowerQuery) == applyLimitAt(data, lowerQuery, LimitStart(lowerQuery))

CountryStart(lowerQuery) ==
    FirstOf({i \in 1..Len(lowerQuery) : CountryValueAt(lowerQuery, i) # 0})
CountryIs(row, country) ==
    /\ HasField(row, "shipCountry")
    /\ row.shipCountry # EmptyText
    /\ toLowerCase(row.shipCountry) = toLowerCase(country)
CountryCaptured(lowerQuery, v) == SubSeq(lowerQuery, v, UnquotedEnd(lowerQuery, v) - 1)
applyCountryOf(data, country) == SelectSeq(data, LAMBDA row : CountryIs(row, country))
applyCountryAt(data, lowerQuery, at) ==
    IF at # 0
    THEN applyCountryOf(data, CountryCaptured(lowerQuery, CountryValueAt(lowerQuery, at)))
    ELSE data
applyCountry(data, lowerQuery) == applyCountryAt(data, lowerQuery, CountryStart(lowerQuery))

FreightStart(lowerQuery) ==
    FirstOf({i \in 1..Len(lowerQuery) : FreightDigitsAt(lowerQuery, i) # 0})
\* a freight filter that keeps the rows at the threshold
FreightAtLeast(row, threshold) ==
    /\ HasField(row, "freight")
    /\ row.freight # EmptyText
    /\ ~parseFloat(row.freight).nan
    /\ parseFloat(row.freight).num >= threshold * parseFloat(row.freight).den
FreightExceeds(row, threshold) ==
    /\ HasField(row, "freight")
    /\ row.freight # EmptyText
    /\ FloatExceeds(parseFloat(row.freight), threshold)
applyFreightOf(data, threshold) == SelectSeq(data, LAMBDA row : FreightExceeds(row, threshold))
applyFreightAt(data, lowerQuery, at) ==
    IF at # 0
    THEN applyFreightOf(data, DigitsAt(lowerQuery, FreightDigitsAt(lowerQuery, at)))
    ELSE data
applyFreight(data, lowerQuery) == applyFreightAt(data, lowerQuery, FreightStart(lowerQuery))

capRows(data) == IF Len(data) > MaxResultRows THEN slice(data, 0, MaxResultRows) ELSE data
applyWhere(data, lowerQuery) ==
    IF includes(lowerQuery, WhereKeyword)
    THEN applyFreight(applyCountry(data, lowerQuery), lowerQuery)
    ELSE data
\* filters that take the LIMIT of the rows the WHERE patterns keep
applyFiltersWhereFirst(data, lowerQuery) ==
    capRows(applyLimit(applyWhere(data, lowerQuery), lowerQuery))
applyFilters(data, lowerQuery) == capRows(applyWhere(applyLimit(data, lowerQuery), lowerQuery))
applyQueryFiltering(data, query) == applyFilters(data, toLowerCase(query))

\* the query asks for the orders dataset
asksForOrders(lowerQuery) == includes(lowerQuery, <<"o", "r", "d", "e", "r", "s">>) \/ includes(lowerQuery, <<"o", "r", "d", "e", "r">>)

\* what the service's try/catch around the dataset leaves in mockData;
\* csvOk: the fetch of /orders.csv answered 2xx
loadOrFallBack(query, csvOk) ==
    IF csvOk THEN applyQueryFiltering(Dataset, query) ELSE generateMockData(query)
serviceRows(query, csvOk) ==
    IF asksForOrders(toLowerCase(query))
    THEN loadOrFallBack(query, csvOk)
    ELSE generateMockData(query)

\* the query texts the model runs
\* validateQuery(query).isValid
SqlKeywords ==
    {<<"s", "e", "l", "e", "c", "t">>, <<"i", "n", "s", "e", "r", "t">>,
     <<"u", "p", "d", "a", "t", "e">>, <<"d", "e", "l", "e", "t", "e">>,
     <<"w", "i", "t", "h">>, <<"c", "r", "e", "a", "t", "e">>,
     <<"a", "l", "t", "e", "r">>, <<"d", "r", "o", "p">>}
\* /^(SELECT|INSERT|UPDATE|DELETE|WITH|CREATE|ALTER|DROP)\s/i.test(text)
sqlKeywordsTest(text) ==
    \E keyword \in SqlKeywords :
        /\ StartsWithAt(toLowerCase(text), 1, keyword)
        /\ Len(text) > Len(keyword)
        /\ IsSpace(text[Len(keyword) + 1])
countChar(text, c) == Cardinality({i \in 1..Len(text) : text[i] = c})
validateQuery(query) ==
    /\ trim(query) # EmptyText
    /\ sqlKeywordsTest(trim(query))
    /\ countChar(trim(query), "(") = countChar(trim(query), ")")

BlankQuery == <<" ", " ">>
GenericQuery == <<"S", "E", "L", "E", "C", "T", " ", "1">>
CustomerQuery == <<"s", "e", "l", "e", "c", "t", " ", "*", " ", "f", "r", "o", "m", " ", "c", "u", "s", "t", "o", "m", "e", "r", "_", "o", "r", "d", "e", "r", "s">>
ProductQuery == <<"S", "E", "L", "E", "C", "T", " ", "*", " ", "F", "R", "O", "M", " ", "i", "t", "e", "m", "s">>
FranceQuery == <<"S", "E", "L", "E", "C", "T", " ", "*", " ", "F", "R", "O", "M", " ", "o", "r", "d", "e", "r", "s", " ", "W", "H", "E", "R", "E", " ", "s", "h", "i", "p", "C", "o", "u", "n", "t", "r", "y", " ", "=", " ", "'", "F", "r", "a", "n", "c", "e", "'", " ", "L", "I", "M", "I", "T", " ", "5">>
FreightQuery == <<"S", "E", "L", "E", "C", "T", " ", "*", " ", "F", "R", "O", "M", " ", "o", "r", "d", "e", "r", "s", " ", "W", "H", "E", "R", "E", " ", "f", "r", "e", "i", "g", "h", "t", " ", ">", " ", "1", "0", "0">>
NoKeywordQuery == <<"F", "O", "O">>
UnbalancedQuery == <<"S", "E", "L", "E", "C", "T", " ", "(", "1">>
RunQueries == {BlankQuery, DefaultQuery}
EditorQueries == RunQueries \cup {NoKeywordQuery, UnbalancedQuery}
QueryArgs == RunQueries \cup {GenericQuery, CustomerQuery, ProductQuery, FranceQuery, FreightQuery}

\* orders queries with a country filter or a freight filter, and a limit or none
SelectOrders == <<"S", "E", "L", "E", "C", "T", " ", "*", " ", "F", "R", "O", "M", " ", "o", "r", "d", "e", "r", "s">>
WhereCountry(country) ==
    <<" ", "W", "H", "E", "R", "E", " ", "s", "h", "i", "p", "C", "o", "u", "n", "t", "r", "y", " ", "=", " ", "'">>
        \o country \o <<"'">>
WhereFreight(threshold) ==
    <<" ", "W", "H", "E", "R", "E", " ", "f", "r", "e", "i", "g", "h", "t", " ", ">", " ">> \o NatToText(threshold)
NoLimit == 0 - 1
LimitClause(n) ==
    IF n = NoLimit THEN EmptyText ELSE <<" ", "L", "I", "M", "I", "T", " ">> \o NatToText(n)
CountryQueryOf(country, n) == SelectOrders \o WhereCountry(country) \o LimitClause(n)
FreightQueryOf(threshold, n) == SelectOrders \o WhereFreight(threshold) \o LimitClause(n)
Countries == {<<"F", "r", "a", "n", "c", "e">>, <<"F", "R", "A", "N", "C", "E">>,
              <<"G", "e", "r", "m", "a", "n", "y">>, <<"S", "p", "a", "i", "n">>}
Limits == {NoLimit, 0, 1, 5}
Thresholds == {0, 32, 100, 150}
WhereBoth(country, threshold) ==
    WhereCountry(country)
        \o <<" ", "A", "N", "D", " ", "f", "r", "e", "i", "g", "h", "t", " ", ">", " ">>
        \o NatToText(threshold)
BothQueryOf(country, threshold, n) ==
    SelectOrders \o WhereBoth(country, threshold) \o LimitClause(n)
FilterQueries ==
    {CountryQueryOf(c, n) : c \in Countries, n \in Limits}
        \cup {FreightQueryOf(t, n) : t \in Thresholds, n \in Limits}
        \cup {BothQueryOf(c, 100, n) : c \in Countries, n \in {NoLimit, 1}}

\* a dataset longer than the service returns: orders of France and Germany
\* in turn, the freight of the i-th being i
ExtraRows == 2
LongData ==
    [i \in 1..(MaxResultRows + ExtraRows) |->
        [orderID |-> NatToText(i),
         shipCountry |-> IF i % 2 = 1 THEN <<"F", "r", "a", "n", "c", "e">>
                         ELSE <<"G", "e", "r", "m", "a", "n", "y">>,
         freight |-> NatToText(i)]]
LongQueries ==
    {SelectOrders, SelectOrders \o LimitClause(MaxResultRows + 1),
     CountryQueryOf(<<"F", "R", "A", "N", "C", "E">>, NoLimit),
     FreightQueryOf(0, NoLimit), FreightQueryOf(0, 5), FreightQueryOf(1, MaxResultRows + 1)}
LongFiltered == [query \in LongQueries |-> applyQueryFiltering(LongData, query)]

\* serviceRows, computed once for each of them
ServiceRowsOf ==
    [query \in QueryArgs \cup FilterQueries \cup EditorQueries, csvOk \in BOOLEAN |-> serviceRows(query, csvOk)]

\* a service that reports the dataset's failure instead of falling back
utilExecuteQueryStrict(query, csvOk, id, delay) ==
    LET mockData == IF asksForOrders(toLowerCase(query)) /\ ~csvOk THEN <<>>
                    ELSE ServiceRowsOf[query, csvOk]
    IN  [id |-> id,
         name |-> UntitledQuery,
         query |-> query,
         data |-> mockData,
         executionTime |-> delay,
         rowCount |-> Len(mockData),
         status |-> IF asksForOrders(toLowerCase(query)) /\ ~csvOk THEN "error" ELSE "success",
         timestamp |-> <<"Date", id>>]

\* executeQuery(query) of the utilities module: the result it resolves with.
\* id is the identifier generateId makes, which also stands for the instant
\* of new Date(); delay is the simulated latency.
utilExecuteQuery(query, csvOk, id, delay) ==
    LET mockData == ServiceRowsOf[query, csvOk]
    IN  [id |-> id,
         name |-> UntitledQuery,
         query |-> query,
         data |-> mockData,
         executionTime |-> delay,
         rowCount |-> Len(mockData),
         status |-> "success",
         timestamp |-> <<"Date", id>>]

(***************************************************************************)
(* Result cache (createQueryResultsStore).  The Map is the sequence of its *)
(* entries <<key, value>> in insertion order.                              *)
(***************************************************************************)
MapKeys(m) == {m[i][1] : i \in 1..Len(m)}
MapHas(m, k) == k \in MapKeys(m)
MapValues(m) == {m[i][2] : i \in 1..Len(m)}
\* Map.prototype.get; undefined reads as Null
MapGet(m, k) == IF MapHas(m, k) THEN m[CHOOSE i \in 1..Len(m) : m[i][1] = k][2] ELSE Null
\* Map.prototype.set: an existing key keeps its place
MapSet(m, k, v) ==
    IF MapHas(m, k)
    THEN [i \in 1..Len(m) |-> IF m[i][1] = k THEN <<k, v>> ELSE m[i]]
    ELSE Append(m, <<k, v>>)
\* Map.prototype.delete
MapDelete(m, k) == SelectSeq(m, LAMBDA e : e[1] # k)
\* new Map(entries)
RECURSIVE MapFrom(_)
MapFrom(es) == IF es = <<>> THEN <<>>
               ELSE MapSet(MapFrom(SubSeq(es, 1, Len(es) - 1)), es[Len(es)][1], es[Len(es)][2])

getResult(m, tabId) == MapGet(m, tabId)
getActiveTab(ts, id) == IF id \in TabIds(ts) THEN ts[findIndex(ts, id)] ELSE Null

\* saveToStorage of the result cache
saveResultsToStorage(ls, m) == [ls EXCEPT !.queryResults = jsonEntries(m)]
\* initialize() of the result cache, in the browser
resultsInitialize(ls) == MapFrom(ls.queryResults)

\* ResultsPanel: the effect that resets the pagination when a result is shown
\* a panel without the effect: the page stays where it was
resetPaginationKept(shown, page) == page
resetPagination(shown, page) == IF shown # Null THEN 1 ELSE page

errorResult(query, id) ==
    [id |-> id,
     name |-> ErrorName,
     query |-> query,
     data |-> <<>>,
     executionTime |-> 0,
     rowCount |-> 0,
     status |-> "error",
     timestamp |-> <<"Date", id>>]

\* The three blocks of executeQuery's continuation, each mapping the cache
\* state rs = [results, currentResult, isExecuting, currentQueryId, ls, thrown].

\* a try block that starts the map afresh with the one result
\* a guard that returns early on the empty text only
executeQueryReturnsOnEmpty(query) == query = EmptyText
\* if (!query.trim()) return;
executeQueryReturns(query) == trim(query) = EmptyText
\* executeQuery(tabId, query) up to its first await, on the results store
executeQueryBegin(rs, tabId, query) ==
    IF executeQueryReturns(query) THEN rs
    ELSE [rs EXCEPT !.isExecuting = TRUE, !.currentQueryId = tabId]

executeQueryTryAlone(rs, tabId, result) ==
    LET m == MapSet(<<>>, tabId, result)
    IN  [rs EXCEPT !.results = m,
                   !.currentResult = result,
                   !.ls = saveResultsToStorage(rs.ls, m)]
\* a try block that files the result under the result's own id
executeQueryTryById(rs, tabId, result) ==
    LET m == MapSet(rs.results, result.id, result)
    IN  [rs EXCEPT !.results = m,
                   !.currentResult = result,
                   !.ls = saveResultsToStorage(rs.ls, m)]
executeQueryTry(rs, tabId, result) ==
    LET m == MapSet(rs.results, tabId, result)
    IN  [rs EXCEPT !.results = m,
                   !.currentResult = result,
                   !.ls = saveResultsToStorage(rs.ls, m)]
\* no catch block: the failure rejects the promise the caller holds
executeQueryRethrow(rs, tabId, query, id) == [rs EXCEPT !.thrown = TRUE]
executeQueryCatch(rs, tabId, query, id) ==
    LET m == MapSet(rs.results, tabId, errorResult(query, id))
    IN  [rs EXCEPT !.results = m,
                   !.currentResult = errorResult(query, id)]
\* no finally block
executeQueryNoFinally(rs) == rs
executeQueryFinally(rs) ==
    [rs EXCEPT !.isExecuting = FALSE, !.currentQueryId = NoId]

\* the continuation after the awaits; importOk: the dynamic import of the
\* utilities module resolved
executeQueryResume(rs, e, importOk, csvOk, id, delay) ==
    executeQueryFinally(
        IF importOk
        THEN executeQueryTry(rs, e.tabId, utilExecuteQuery(e.query, csvOk, id, delay))
        ELSE executeQueryCatch(rs, e.tabId, e.query, id))

clearResult(m, tabId) == MapDelete(m, tabId)
clearAllResults(m) == <<>>

\* Sidebar.removeFromHistory(event, resultId), called with result.id of the
\* entry; confirmed: the answer to confirm()
removeFromHistory(m, result, confirmed) ==
    IF confirmed THEN clearResult(m, result.id) ELSE m

(***************************************************************************)
(* Settings (createSettingsStore).  Each operation maps the state          *)
(* ss = [settings, ls] to the state it leaves.                             *)
(***************************************************************************)
LightTheme == "light"
DarkTheme == "dark"
Themes == {LightTheme, DarkTheme}
DefaultFontSize == 14
MinFontSize == 10
MaxFontSize == 24
DefaultSettings ==
    [theme |-> LightTheme, fontSize |-> DefaultFontSize, autoSave |-> TRUE,
     showLineNumbers |-> TRUE, wordWrap |-> FALSE]

\* saveToStorage of the settings store
saveSettingsToStorage(ss) == [ss EXCEPT !.ls.appSettings = ss.settings]

\* initialize() of the settings store, in the browser; currentTheme: the
\* data-theme attribute of the document, 'light' when it has none.  A stored
\* font size of 0 is falsy.
settingsInitialize(ss, currentTheme) ==
    IF ss.ls.appSettings = Null
    THEN [ss EXCEPT !.settings = [DefaultSettings EXCEPT !.theme = currentTheme]]
    ELSE [ss EXCEPT !.settings =
             [ss.ls.appSettings EXCEPT
                 !.fontSize = IF ss.ls.appSettings.fontSize # 0 THEN ss.ls.appSettings.fontSize
                              ELSE DefaultFontSize]]

setTheme(ss, newTheme) == saveSettingsToStorage([ss EXCEPT !.settings.theme = newTheme])
toggleTheme(ss) == setTheme(ss, IF ss.settings.theme = LightTheme THEN DarkTheme ELSE LightTheme)
\* a setFontSize that stores the size as it is given
setFontSizeUnclamped(ss, size) ==
    saveSettingsToStorage([ss EXCEPT !.settings.fontSize = size])
setFontSize(ss, size) ==
    saveSettingsToStorage([ss EXCEPT !.settings.fontSize = Max(MinFontSize, Min(MaxFontSize, size))])
setAutoSave(ss, enabled) == saveSettingsToStorage([ss EXCEPT !.settings.autoSave = enabled])
setShowLineNumbers(ss, show) ==
    saveSettingsToStorage([ss EXCEPT !.settings.showLineNumbers = show])
setWordWrap(ss, wrap) == saveSettingsToStorage([ss EXCEPT !.settings.wordWrap = wrap])

(***************************************************************************)
(* CSV export and parsing (exportToCSV, parseCSV, parseCSVLine).  A cell   *)
(* value carries its JavaScript type; a row object of a table is the       *)
(* sequence of its <<key, value>> properties in insertion order, the keys  *)
(* being texts.                                                            *)
(***************************************************************************)
NullValue == [type |-> "null"]
NumberValue(n) == [type |-> "number", num |-> n]
BooleanValue(b) == [type |-> "boolean", bool |-> b]
StringValue(text) == [type |-> "string", text |-> text]
ObjectValue == [type |-> "object"]

Comma == ","
Quote == "\""
NewLine == "\n"
Return == "\r"

\* the text Array.prototype.join makes of an element
joinText(value) ==
    CASE value.type = "string" -> value.text
      [] value.type = "number" -> NatToText(value.num)
      [] value.type = "boolean" -> IF value.bool THEN <<"t", "r", "u", "e">>
                                   ELSE <<"f", "a", "l", "s", "e">>
      [] value.type = "null" -> EmptyText
      [] OTHER -> <<"[", "o", "b", "j", "e", "c", "t", " ", "O", "b", "j", "e", "c", "t", "]">>
\* Array.prototype.join of texts
RECURSIVE join(_, _)
join(texts, sep) ==
    IF texts = <<>> THEN EmptyText
    ELSE IF Len(texts) = 1 THEN texts[1]
    ELSE texts[1] \o sep \o join(Tail(texts), sep)
\* value.replace(/"/g, '""')
RECURSIVE doubleQuotes(_)
doubleQuotes(text) ==
    IF text = <<>> THEN <<>>
    ELSE (IF Head(text) = Quote THEN <<Quote, Quote>> ELSE <<Head(text)>>)
             \o doubleQuotes(Tail(text))
hasChar(text, c) == \E i \in 1..Len(text) : text[i] = c
needsQuotes(value) ==
    /\ value.type = "string"
    /\ hasChar(value.text, Comma) \/ hasChar(value.text, Quote) \/ hasChar(value.text, NewLine)
\* Object.keys(row) and row[header]; a property the row lacks reads undefined
objectKeys(row) == [i \in 1..Len(row) |-> row[i][1]]
rowGet(row, header) == IF MapHas(row, header) THEN MapGet(row, header) ELSE NullValue
csvCell(value) ==
    IF needsQuotes(value) THEN <<Quote>> \o doubleQuotes(value.text) \o <<Quote>>
    ELSE joinText(value)
csvLine(row, headers) ==
    join([i \in 1..Len(headers) |-> csvCell(rowGet(row, headers[i]))], <<Comma>>)
csvLines(data, headers) ==
    <<join(headers, <<Comma>>)>> \o [i \in 1..Len(data) |-> csvLine(data[i], headers)]
\* exportToCSV(data) in the browser: the csvContent it downloads, Null when
\* it returns before making one
exportToCSV(data) ==
    IF Len(data) = 0 THEN Null
    ELSE join(csvLines(data, objectKeys(data[1])), <<NewLine>>)

\* String.prototype.split(/\r?\n/)
lineEnd(text) ==
    IF hasChar(text, NewLine) THEN CHOOSE i \in 1..Len(text) :
                                       text[i] = NewLine /\ \A j \in 1..(i - 1) : text[j] # NewLine
    ELSE 0
beforeBreak(text, at) ==
    IF at > 1 /\ text[at - 1] = Return THEN SubSeq(text, 1, at - 2) ELSE SubSeq(text, 1, at - 1)
RECURSIVE splitAt(_, _)
splitLines(text) == splitAt(text, lineEnd(text))
splitAt(text, at) ==
    IF at = 0 THEN <<text>>
    ELSE <<beforeBreak(text, at)>> \o splitLines(SubSeq(text, at + 1, Len(text)))

\* parseCSVLine: the loop from index i with the field read so far, the quote
\* state and the fields pushed
RECURSIVE parseCSVLineFrom(_, _, _, _, _)
parseCSVLineFrom(line, i, current, inQuotes, result) ==
    IF i > Len(line) THEN Append(result, trim(current))
    ELSE IF line[i] = Quote
         THEN IF inQuotes /\ i + 1 <= Len(line) /\ line[i + 1] = Quote
              THEN parseCSVLineFrom(line, i + 2, Append(current, Quote), inQuotes, result)
              ELSE parseCSVLineFrom(line, i + 1, current, ~inQuotes, result)
    ELSE IF line[i] = Comma /\ ~inQuotes
         THEN parseCSVLineFrom(line, i + 1, EmptyText, inQuotes, Append(result, trim(current)))
    ELSE parseCSVLineFrom(line, i + 1, Append(current, line[i]), inQuotes, result)
parseCSVLine(line) == parseCSVLineFrom(line, 1, EmptyText, FALSE, <<>>)

\* headers.forEach((header, index) => row[header] = values[index])
RECURSIVE rowOf(_, _)
rowOf(headers, values) ==
    IF headers = <<>> THEN <<>>
    ELSE MapSet(rowOf(SubSeq(headers, 1, Len(headers) - 1), values),
                headers[Len(headers)], StringValue(values[Len(headers)]))
RECURSIVE parseRows(_, _)
parseRowOf(headers, values, rest) ==
    (IF Len(values) = Len(headers) THEN <<rowOf(headers, values)>> ELSE <<>>)
        \o parseRows(headers, rest)
parseRows(headers, lines) ==
    IF lines = <<>> THEN <<>>
    ELSE parseRowOf(headers, parseCSVLine(Head(lines)), Tail(lines))
parseLines(lines) == parseRows(parseCSVLine(Head(lines)), Tail(lines))
parseCSV(csvContent) == parseLines(splitLines(trim(csvContent)))

(***************************************************************************)
(* ResultsPanel: the text and the CSS class of a table cell.               *)
(***************************************************************************)
GroupFrom == 1000
TruncateOver == 100
TruncateKeep == 97
\* Number.prototype.toLocaleString in the en-US locale: groups of three digits
RECURSIVE groupDigits(_)
groupDigits(digits) ==
    IF Len(digits) <= 3 THEN digits
    ELSE groupDigits(SubSeq(digits, 1, Len(digits) - 3)) \o <<Comma>>
             \o SubSeq(digits, Len(digits) - 2, Len(digits))
toLocaleString(n) == groupDigits(NatToText(n))
\* JSON.stringify of the empty object, the one object value of the model
jsonStringify(value) == <<"{", "}">>
formatCellValue(value) ==
    CASE value.type = "null" -> EmptyText
      [] value.type = "boolean" -> IF value.bool THEN <<"t", "r", "u", "e">>
                                   ELSE <<"f", "a", "l", "s", "e">>
      [] value.type = "number" -> IF value.num >= GroupFrom THEN toLocaleString(value.num)
                                  ELSE NatToText(value.num)
      [] value.type = "string" -> IF Len(value.text) > TruncateOver
                                  THEN SubSeq(value.text, 1, TruncateKeep) \o <<".", ".", ".">>
                                  ELSE value.text
      [] OTHER -> jsonStringify(value)

\* /^\d{4}-\d{2}-\d{2}/.test(text)
DigitsFrom(text, from, count) ==
    /\ from + count - 1 <= Len(text)
    /\ \A i \in from..(from + count - 1) : IsDigit(text[i])
DashAt(text, i) == i <= Len(text) /\ text[i] = "-"
datePattern(text) ==
    /\ DigitsFrom(text, 1, 4)
    /\ DashAt(text, 5)
    /\ DigitsFrom(text, 6, 2)
    /\ DashAt(text, 8)
    /\ DigitsFrom(text, 9, 2)
\* a classification that looks for an e-mail address before a date
getCellClassEmailFirst(value) ==
    CASE value.type = "null" -> "cell-null"
      [] value.type = "number" -> "cell-number"
      [] value.type = "boolean" -> "cell-boolean"
      [] value.type = "string" ->
            IF hasChar(value.text, "@") /\ hasChar(value.text, ".") THEN "cell-email"
            ELSE IF datePattern(value.text) THEN "cell-date"
            ELSE "cell-string"
      [] OTHER -> "cell-object"
getCellClass(value) ==
    CASE value.type = "null" -> "cell-null"
      [] value.type = "number" -> "cell-number"
      [] value.type = "boolean" -> "cell-boolean"
      [] value.type = "string" ->
            IF datePattern(value.text) THEN "cell-date"
            ELSE IF hasChar(value.text, "@") /\ hasChar(value.text, ".") THEN "cell-email"
            ELSE "cell-string"
      [] OTHER -> "cell-object"

(***************************************************************************)
(* ResultsPanel: the derived values of the pagination, as functions of the *)
(* result shown, the current page and the page size.                       *)
(***************************************************************************)
\* Math.ceil(n / d) for naturals n and d >= 1
ceil(n, d) == IF n % d = 0 THEN n \div d ELSE (n \div d) + 1
dataLength(shown) == IF shown # Null THEN Len(shown.data) ELSE 0
totalPagesOf(shown, size) == IF shown # Null THEN ceil(Len(shown.data), size) ELSE 0
\* a start index counted from page 0
startIndexFromZero(page, size) == page * size
startIndexOf(page, size) == (page - 1) * size
endIndexOf(shown, page, size) == Min(startIndexOf(page, size) + size, dataLength(shown))
paginatedDataOf(shown, page, size) ==
    IF shown # Null
    THEN slice(shown.data, startIndexOf(page, size), endIndexOf(shown, page, size))
    ELSE <<>>
\* goToPage without the lower clamp
goToPageNoFloor(page, total) == Min(page, total)
goToPage(page, total) == Max(1, Min(page, total))

(***************************************************************************)
(* The state after construction.  The browser's store is empty on a first  *)
(* visit, or holds what an earlier session of the program left in it.      *)
(***************************************************************************)
EmptyStorage == [queryTabs |-> <<>>, activeTabId |-> NoId, queryResults |-> <<>>,
                 appSettings |-> Null]

\* an id nothing of this session has, and the ids of an earlier session
AbsentId == MaxIds + 1
EarlierTabId == AbsentId + 1
EarlierResultId == AbsentId + 2

\* an earlier session that made its default tab and ran it
EarlierSession ==
    LET st == createDefaultTab([tabs |-> <<>>, activeTabId |-> NoId, ls |-> EmptyStorage,
                                nextId |-> EarlierTabId, ok |-> TRUE])
        r == utilExecuteQuery(DefaultQuery, TRUE, EarlierResultId, MinDelayMs)
    IN  saveResultsToStorage(st.ls, <<<<EarlierTabId, r>>>>)

Storages == {EmptyStorage, EarlierSession}
RowsPerPage == 50

Init ==
    /\ tabs = <<>>
    /\ activeTabId = NoId
    /\ results = <<>>
    /\ isExecuting = FALSE
    /\ currentQueryId = NoId
    /\ currentResult = Null
    /\ localStorage \in Storages
    /\ nextId = 1
    /\ initialized = FALSE
    /\ inflight = <<>>
    /\ executedTabs = MapKeys(MapFrom(localStorage.queryResults))
    /\ thrown = FALSE
    /\ currentPage = 1
    /\ rowsPerPage = RowsPerPage
    /\ download = Null
    /\ parsed = Null
    /\ twin = [tabs |-> <<>>, activeTabId |-> NoId, ls |-> localStorage, nextId |-> 1, ok |-> TRUE]
    /\ savedQuery = <<>>
    /\ lastQuery = <<>>
    /\ pendingUpdate = Null
    /\ settings = DefaultSettings

SettingsState == [settings |-> settings, ls |-> localStorage]
TabState == [tabs |-> tabs, activeTabId |-> activeTabId, ls |-> localStorage, nextId |-> nextId,
             ok |-> TRUE]
\* the registry in an operation whose storage writes succeed or fail
TabStateWhen(ok) == [TabState EXCEPT !.ok = ok]
CacheState == [results |-> results, currentResult |-> currentResult,
               isExecuting |-> isExecuting, currentQueryId |-> currentQueryId,
               ls |-> localStorage, thrown |-> thrown]

SetTabState(st) ==
    /\ tabs' = st.tabs
    /\ activeTabId' = st.activeTabId
    /\ localStorage' = st.ls
    /\ nextId' = st.nextId

\* identifiers still free once every suspended execution has taken its own
FreeIds == MaxIds - (nextId - 1) - Len(inflight)

(***************************************************************************)
(* Actions.                                                                *)
(***************************************************************************)
\* the page mounts: QueryTabs.onMount, Sidebar.onMount and the page's onMount
\* call the stores' initialize() one after the other
Mount ==
    /\ ~initialized
    /\ FreeIds >= 1
    /\ LET st == initialize(initialize(TabState))
       IN  /\ SetTabState(st)
           /\ results' = resultsInitialize(st.ls)
    /\ settings' = settingsInitialize(SettingsState, LightTheme).settings
    /\ initialized' = TRUE
    /\ UNCHANGED <<isExecuting, currentQueryId, currentResult, inflight, executedTabs,
                   thrown, pageVars, download, parsed, twin, savedQuery, lastQuery, pendingUpdate>>

CreateTab(name, initialQuery) ==
    /\ initialized
    /\ FreeIds >= 1
    /\ SetTabState(createTab(TabState, name, initialQuery))
    /\ UNCHANGED <<resultVars, initialized, inflight, pageVars, auxVars>>

\* the ids an operation of the tab registry may be called with: the tabs' and
\* an id no tab has
TabArgs == TabIds(tabs) \cup {AbsentId}
\* the ids an operation may be called with: the tabs', the stored results'
\* keys (a closed tab's among them) and an id nothing has
IdArgs == TabIds(tabs) \cup MapKeys(results) \cup {AbsentId}

SetActiveTab(tabId) ==
    /\ initialized
    /\ SetTabState(setActiveTab(TabState, tabId))
    /\ UNCHANGED <<resultVars, initialized, inflight, pageVars, auxVars>>

\* a closeTab that also drops the closed tab's stored result
CloseTabCascade(tabId) ==
    /\ initialized
    /\ FreeIds >= 1
    /\ SetTabState([closeTab(TabState, tabId) EXCEPT
           !.ls = saveResultsToStorage(closeTab(TabState, tabId).ls, clearResult(results, tabId))])
    /\ results' = clearResult(results, tabId)
    /\ UNCHANGED <<isExecuting, currentQueryId, currentResult, executedTabs, thrown,
                   initialized, inflight, pageVars, auxVars>>

CloseTab(tabId) ==
    /\ initialized
    /\ FreeIds >= 1
    /\ SetTabState(closeTab(TabState, tabId))
    /\ UNCHANGED <<resultVars, initialized, inflight, pageVars, auxVars>>

\* The other mutations of the tab registry.
UpdateTabQuery(tabId, query) ==
    /\ initialized
    /\ SetTabState(updateTabQuery(TabState, tabId, query))
    /\ UNCHANGED <<resultVars, initialized, inflight, pageVars, auxVars>>

UpdateTabName(tabId, name) ==
    /\ initialized
    /\ SetTabState(updateTabName(TabState, tabId, name))
    /\ UNCHANGED <<resultVars, initialized, inflight, pageVars, auxVars>>

MarkTabAsSaved(tabId) ==
    /\ initialized
    /\ SetTabState(markTabAsSaved(TabState, tabId))
    /\ UNCHANGED <<resultVars, initialized, inflight, pageVars, auxVars>>

DuplicateTab(tabId) ==
    /\ initialized
    /\ FreeIds >= 1
    /\ SetTabState(duplicateTab(TabState, tabId))
    /\ UNCHANGED <<resultVars, initialized, inflight, pageVars, auxVars>>

ReorderTabs(fromIndex, toIndex) ==
    /\ initialized
    /\ fromIndex \in 0..(Len(tabs) - 1)
    /\ SetTabState(reorderTabs(TabState, fromIndex, toIndex))
    /\ UNCHANGED <<resultVars, initialized, inflight, pageVars, auxVars>>

\* The same operations in a browser whose storage writes may fail, next to the
\* twin registry whose every write succeeds.
TwinIds == MaxIds - (twin.nextId - 1)
otherVars == <<resultVars, inflight, pageVars, download, parsed, settings, savedQuery,
               lastQuery, pendingUpdate>>
\* QueryTabs.onMount: initialize() of the tab registry, at every mount of the page
QueryTabsMount(ok) ==
    /\ FreeIds >= 1
    /\ TwinIds >= 1
    /\ SetTabState(initialize(TabStateWhen(ok)))
    /\ twin' = initialize(twin)
    /\ initialized' = TRUE
    /\ UNCHANGED otherVars

CreateTabStoring(ok) ==
    /\ initialized
    /\ FreeIds >= 1
    /\ TwinIds >= 1
    /\ SetTabState(createTab(TabStateWhen(ok), EmptyText, EmptyText))
    /\ twin' = createTab(twin, EmptyText, EmptyText)
    /\ UNCHANGED <<initialized, otherVars>>

SetActiveTabStoring(tabId, ok) ==
    /\ initialized
    /\ SetTabState(setActiveTab(TabStateWhen(ok), tabId))
    /\ twin' = setActiveTab(twin, tabId)
    /\ UNCHANGED <<initialized, otherVars>>

\* setActiveTab whose storage.set('query-tabs', ...) throws (the quota is
\* reached) while its storage.set('active-tab-id', ...) succeeds
SetActiveTabHalfStored(tabId) ==
    /\ initialized
    /\ SetTabState([setActiveTab(TabStateWhen(FALSE), tabId) EXCEPT !.ls.activeTabId = tabId])
    /\ twin' = setActiveTab(twin, tabId)
    /\ UNCHANGED <<initialized, otherVars>>

CloseTabStoring(tabId, ok) ==
    /\ initialized
    /\ FreeIds >= 1
    /\ TwinIds >= 1
    /\ SetTabState(closeTab(TabStateWhen(ok), tabId))
    /\ twin' = closeTab(twin, tabId)
    /\ UNCHANGED <<initialized, otherVars>>

\* executeQuery(tabId, query) up to its first await
ExecuteQuery(tabId, query) ==
    /\ initialized
    /\ IF executeQueryReturns(query)
       THEN UNCHANGED vars
       ELSE /\ Len(inflight) < MaxInflight
            /\ FreeIds >= 1
            /\ isExecuting' = executeQueryBegin(CacheState, tabId, query).isExecuting
            /\ currentQueryId' = executeQueryBegin(CacheState, tabId, query).currentQueryId
            /\ inflight' = Append(inflight, [tabId |-> tabId, query |-> query])
            /\ lastQuery' = MapSet(lastQuery, tabId, query)
            /\ UNCHANGED <<tabVars, results, currentResult, executedTabs, thrown,
                           localStorage, nextId, initialized, pageVars, download, parsed,
                           twin, settings, savedQuery, pendingUpdate>>

RemoveAt(s, i) == SubSeq(s, 1, i - 1) \o SubSeq(s, i + 1, Len(s))

\* a resumption that drops the execution of a tab the registry no longer has
ExecuteQueryResumeCancelled(i, importOk, csvOk, delay) ==
    /\ i \in 1..Len(inflight)
    /\ LET rs == IF inflight[i].tabId \in TabIds(tabs)
                 THEN executeQueryResume(CacheState, inflight[i], importOk, csvOk, nextId, delay)
                 ELSE executeQueryFinally(CacheState)
       IN  /\ results' = rs.results
           /\ currentResult' = rs.currentResult
           /\ isExecuting' = rs.isExecuting
           /\ currentQueryId' = rs.currentQueryId
           /\ localStorage' = rs.ls
           /\ thrown' = rs.thrown
           /\ currentPage' = resetPagination(rs.currentResult, currentPage)
    /\ nextId' = nextId + 1
    /\ inflight' = RemoveAt(inflight, i)
    /\ executedTabs' = executedTabs \cup {inflight[i].tabId}
    /\ UNCHANGED <<tabVars, initialized, rowsPerPage, auxVars>>

\* the i-th suspended executeQuery resumes and runs to its end
ExecuteQueryResume(i, importOk, csvOk, delay) ==
    /\ i \in 1..Len(inflight)
    /\ LET rs == executeQueryResume(CacheState, inflight[i], importOk, csvOk, nextId, delay)
       IN  /\ results' = rs.results
           /\ currentResult' = rs.currentResult
           /\ isExecuting' = rs.isExecuting
           /\ currentQueryId' = rs.currentQueryId
           /\ localStorage' = rs.ls
           /\ thrown' = rs.thrown
           /\ currentPage' = resetPagination(rs.currentResult, currentPage)
    /\ nextId' = nextId + 1
    /\ inflight' = RemoveAt(inflight, i)
    /\ executedTabs' = executedTabs \cup {inflight[i].tabId}
    /\ UNCHANGED <<tabVars, initialized, rowsPerPage, auxVars>>

\* QueryEditor.runQuery(), the text of the editor being queryInput, up to the
\* first await of the store's executeQuery
RunQuery(queryInput) ==
    /\ initialized
    /\ IF getActiveTab(tabs, activeTabId) = Null \/ trim(queryInput) = EmptyText
       THEN UNCHANGED vars
       ELSE ExecuteQuery(activeTabId, queryInput)

\* runQuery() after its await: the execution settles, then markTabAsSaved
RunQueryResume(i, importOk, csvOk, delay) ==
    /\ i \in 1..Len(inflight)
    /\ LET rs == executeQueryResume(CacheState, inflight[i], importOk, csvOk, nextId, delay)
           st == markTabAsSaved([TabState EXCEPT !.ls = rs.ls, !.nextId = nextId + 1],
                                inflight[i].tabId)
       IN  /\ results' = rs.results
           /\ currentResult' = rs.currentResult
           /\ isExecuting' = rs.isExecuting
           /\ currentQueryId' = rs.currentQueryId
           /\ thrown' = rs.thrown
           /\ currentPage' = resetPagination(rs.currentResult, currentPage)
           /\ SetTabState(st)
    /\ inflight' = RemoveAt(inflight, i)
    /\ executedTabs' = executedTabs \cup {inflight[i].tabId}
    /\ UNCHANGED <<initialized, rowsPerPage, auxVars>>

\* QueryEditor.handleQueryInput: the keystroke restarts the debounce timer.
\* typedIn, the tab active at the keystroke, is history: the code keeps the
\* text only.
HandleQueryInput(value) ==
    /\ initialized
    /\ pendingUpdate' = [query |-> value, typedIn |-> activeTabId]
    /\ UNCHANGED <<tabVars, resultVars, localStorage, nextId, initialized, inflight, pageVars,
                   download, parsed, twin, settings, savedQuery, lastQuery>>

\* the debounce timer fires: the callback of debouncedUpdate reads activeTab,
\* which the reactive statement keeps equal to the store's active tab
DebounceFires ==
    /\ pendingUpdate # Null
    /\ pendingUpdate' = Null
    /\ SetTabState(IF getActiveTab(tabs, activeTabId) # Null
                   THEN updateTabQuery(TabState, activeTabId, pendingUpdate.query)
                   ELSE TabState)
    /\ UNCHANGED <<resultVars, initialized, inflight, pageVars,
                   download, parsed, twin, settings, savedQuery, lastQuery>>

\* QueryEditor.saveQuery() and clearEditor(); confirmClear: the answer to confirm()
SaveQuery ==
    /\ initialized
    /\ IF getActiveTab(tabs, activeTabId) = Null THEN UNCHANGED vars
       ELSE /\ SetTabState(markTabAsSaved(TabState, activeTabId))
            /\ savedQuery' = MapSet(savedQuery, activeTabId, getActiveTab(tabs, activeTabId).query)
            /\ UNCHANGED <<resultVars, initialized, inflight, pageVars, download, parsed, twin,
                           settings, lastQuery, pendingUpdate>>

ClearEditor(confirmClear) ==
    IF getActiveTab(tabs, activeTabId) = Null \/ ~confirmClear THEN initialized /\ UNCHANGED vars
    ELSE UpdateTabQuery(activeTabId, EmptyText)

ClearResult(tabId) ==
    /\ initialized
    /\ results' = clearResult(results, tabId)
    /\ localStorage' = saveResultsToStorage(localStorage, results')
    /\ UNCHANGED <<tabVars, isExecuting, currentQueryId, currentResult, executedTabs,
                   thrown, nextId, initialized, inflight, pageVars, auxVars>>

ClearAllResults ==
    /\ initialized
    /\ results' = clearAllResults(results)
    /\ localStorage' = saveResultsToStorage(localStorage, results')
    /\ UNCHANGED <<tabVars, isExecuting, currentQueryId, currentResult, executedTabs,
                   thrown, nextId, initialized, inflight, pageVars, auxVars>>

\* Sidebar: the remove button of the i-th stored result, and 'clear all'
RemoveFromHistory(i, confirmed) ==
    /\ initialized
    /\ i \in 1..Len(results)
    /\ results' = removeFromHistory(results, results[i][2], confirmed)
    /\ localStorage' = IF confirmed THEN saveResultsToStorage(localStorage, results')
                       ELSE localStorage
    /\ UNCHANGED <<tabVars, isExecuting, currentQueryId, currentResult, executedTabs,
                   thrown, nextId, initialized, inflight, pageVars, auxVars>>

ClearAllHistory(confirmed) ==
    IF confirmed THEN ClearAllResults ELSE initialized /\ UNCHANGED vars

\* QueryEditor: the reactive statement that shows the active tab's result
SyncCurrentResult ==
    /\ initialized
    /\ getActiveTab(tabs, activeTabId) # Null
    /\ currentResult' = getResult(results, activeTabId)
    /\ currentPage' = resetPagination(currentResult', currentPage)
    /\ UNCHANGED <<tabVars, results, isExecuting, currentQueryId, executedTabs, thrown,
                   localStorage, nextId, initialized, inflight, rowsPerPage, auxVars>>

\* QueryEditor, "Update current result when active tab changes": the result
\* shown once the reactive statement has run over the registry's new state
updateCurrentResultKept(tabList, activeId, stored, shown) == shown
updateCurrentResult(tabList, activeId, stored, shown) ==
    IF getActiveTab(tabList, activeId) # Null THEN getResult(stored, activeId) ELSE shown

\* An operation of the tab registry as the page runs it: the registry changes
\* to st and the editor's reactive statement runs in the same update.
ActiveTabChanges(st) ==
    /\ initialized
    /\ FreeIds >= 1
    /\ SetTabState(st)
    /\ currentResult' = updateCurrentResult(st.tabs, st.activeTabId, results, currentResult)
    /\ currentPage' = IF currentResult' # currentResult
                      THEN resetPagination(currentResult', currentPage) ELSE currentPage
    /\ UNCHANGED <<results, isExecuting, currentQueryId, executedTabs, thrown, initialized,
                   inflight, rowsPerPage, auxVars>>

EditorMount ==
    /\ ~initialized
    /\ FreeIds >= 1
    /\ LET st == initialize(initialize(TabState))
       IN  /\ SetTabState(st)
           /\ results' = resultsInitialize(st.ls)
           /\ currentResult' = updateCurrentResult(st.tabs, st.activeTabId,
                                                   resultsInitialize(st.ls), currentResult)
    /\ settings' = settingsInitialize(SettingsState, LightTheme).settings
    /\ initialized' = TRUE
    /\ UNCHANGED <<isExecuting, currentQueryId, inflight, executedTabs, thrown, pageVars,
                   download, parsed, twin, savedQuery, lastQuery, pendingUpdate>>

EditorCreateTab == ActiveTabChanges(createTab(TabState, EmptyText, EmptyText))
EditorSetActiveTab(tabId) == ActiveTabChanges(setActiveTab(TabState, tabId))
EditorCloseTab(tabId) == ActiveTabChanges(closeTab(TabState, tabId))
EditorDuplicateTab(tabId) == ActiveTabChanges(duplicateTab(TabState, tabId))

\* Sidebar.loadQueryFromHistory(result): the handler runs to its end, then the
\* editor's reactive statement runs over the registry it left
LoadQueryFromHistory(result) ==
    /\ initialized
    /\ FreeIds >= 2
    /\ LET st == updateTabQuery(createTab(TabState, result.name, EmptyText), nextId, result.query)
       IN  /\ SetTabState(st)
           /\ currentResult' = updateCurrentResult(st.tabs, st.activeTabId, results, result)
    /\ currentPage' = IF currentResult' # currentResult
                      THEN resetPagination(currentResult', currentPage) ELSE currentPage
    /\ UNCHANGED <<results, isExecuting, currentQueryId, executedTabs, thrown, initialized,
                   inflight, rowsPerPage, auxVars>>

\* the derived values in the current state
totalPages == totalPagesOf(currentResult, rowsPerPage)
startIndex == startIndexOf(currentPage, rowsPerPage)
endIndex == endIndexOf(currentResult, currentPage, rowsPerPage)
paginatedData == paginatedDataOf(currentResult, currentPage, rowsPerPage)

\* ResultsPanel: goToPage(page)
GoToPage(page) ==
    /\ currentPage' = goToPage(page, totalPages)
    /\ UNCHANGED <<tabVars, resultVars, localStorage, nextId, initialized, inflight,
                   rowsPerPage, auxVars>>

\* a result of n rows, or none, becomes the result shown
PageResult(n) ==
    [utilExecuteQuery(DefaultQuery, FALSE, nextId, MinDelayMs) EXCEPT
        !.data = slice(generateOrderData, 0, n), !.rowCount = n]
ShowResult(shown) ==
    /\ currentResult' = shown
    /\ currentPage' = resetPagination(shown, currentPage)
    /\ UNCHANGED <<tabVars, results, isExecuting, currentQueryId, executedTabs, thrown,
                   localStorage, nextId, initialized, inflight, rowsPerPage, auxVars>>

\* ResultsPanel: exportResults(); the file it hands to the browser
ExportResults ==
    /\ currentResult # Null
    /\ download' = IF exportToCSV(currentResult.data) = Null THEN download
                   ELSE [content |-> exportToCSV(currentResult.data)]
    /\ UNCHANGED <<tabVars, resultVars, localStorage, nextId, initialized, inflight,
                   pageVars, parsed, twin, settings, savedQuery,
                   lastQuery, pendingUpdate>>

\* parseCSV of the exported file's text
ParseDownload ==
    /\ download # Null
    /\ parsed' = [rows |-> parseCSV(download.content)]
    /\ UNCHANGED <<tabVars, resultVars, localStorage, nextId, initialized, inflight,
                   pageVars, download, twin, settings, savedQuery,
                   lastQuery, pendingUpdate>>

\* the stores' operations; the dataset loads here, its failure is ServiceNext's
Next ==
    \/ Mount
    \/ CreateTab(EmptyText, EmptyText)
    \/ \E id \in TabArgs : SetActiveTab(id)
    \/ \E id \in TabArgs : CloseTab(id)
    \/ \E id \in TabIds(tabs), q \in RunQueries : ExecuteQuery(id, q)
    \/ \E i \in 1..Len(inflight), importOk \in BOOLEAN, delay \in Delays :
           ExecuteQueryResume(i, importOk, TRUE, delay)
    \/ \E id \in IdArgs : ClearResult(id)
    \/ ClearAllResults
    \/ SyncCurrentResult

Spec == Init /\ [][Next]_vars

\* The execution service under every kind of query text.
ServiceNext ==
    \/ Mount
    \/ \E id \in TabIds(tabs), q \in QueryArgs : ExecuteQuery(id, q)
    \/ \E i \in 1..Len(inflight), importOk \in BOOLEAN, csvOk \in BOOLEAN, delay \in Delays :
           ExecuteQueryResume(i, importOk, csvOk, delay)
ServiceSpec == Init /\ [][ServiceNext]_vars

\* The filters of the service over the dataset: one execution at a time, the
\* dataset loaded.
FilterNext ==
    \/ Mount
    \/ \E id \in TabIds(tabs), q \in FilterQueries : inflight = <<>> /\ ExecuteQuery(id, q)
    \/ \E i \in 1..Len(inflight), delay \in Delays : ExecuteQueryResume(i, TRUE, TRUE, delay)
FilterSpec == Init /\ [][FilterNext]_vars

\* The CSV export of a shown table and the parsing of the exported text,
\* over tables of a text column and a number column.
CsvChars == {"a", " ", Comma, Quote, NewLine}
CellTexts == UNION {[1..n -> CsvChars] : n \in 0..MaxCellLen}
TextColumn == <<"s">>
NumberColumn == <<"n">>
CsvRows == {<< <<TextColumn, StringValue(t)>>, <<NumberColumn, NumberValue(12)>> >> : t \in CellTexts}
CsvTables == UNION {[1..n -> CsvRows] : n \in 0..MaxCsvRows}
CsvResult(table) ==
    [utilExecuteQuery(DefaultQuery, TRUE, 1, MinDelayMs) EXCEPT
        !.data = table, !.rowCount = Len(table)]
CsvInit ==
    /\ tabs = <<>>
    /\ activeTabId = NoId
    /\ results = <<>>
    /\ isExecuting = FALSE
    /\ currentQueryId = NoId
    /\ currentResult \in {CsvResult(table) : table \in CsvTables}
    /\ localStorage = EmptyStorage
    /\ nextId = 2
    /\ initialized = FALSE
    /\ inflight = <<>>
    /\ executedTabs = {}
    /\ thrown = FALSE
    /\ currentPage = 1
    /\ rowsPerPage = RowsPerPage
    /\ download = Null
    /\ parsed = Null
    /\ twin = [tabs |-> <<>>, activeTabId |-> NoId, ls |-> EmptyStorage, nextId |-> 1, ok |-> TRUE]
    /\ savedQuery = <<>>
    /\ lastQuery = <<>>
    /\ pendingUpdate = Null
    /\ settings = DefaultSettings
CsvNext ==
    \/ ExportResults
    \/ ParseDownload
CsvSpec == CsvInit /\ [][CsvNext]_vars

\* The editor runs the text it holds, whatever that text is.
EditorNext ==
    \/ Mount
    \/ \E queryInput \in EditorQueries : RunQuery(queryInput)
    \/ \E i \in 1..Len(inflight), importOk \in BOOLEAN, delay \in Delays :
           RunQueryResume(i, importOk, TRUE, delay)
    \/ \E tabId \in TabArgs : SetActiveTab(tabId)
    \/ CreateTab(EmptyText, EmptyText)
EditorSpec == Init /\ [][EditorNext]_vars

\* Every mutation of the tab registry, the storage working.  The editor and
\* the page pass the id of the active tab.
NewName == <<"n">>
EditedQueries == {GenericQuery}
RegistryInit == Init /\ localStorage = EmptyStorage
RegistryNext ==
    \/ Mount
    \/ FreeIds >= 2 /\ CreateTab(EmptyText, EmptyText)
    \/ \E query \in EditedQueries : UpdateTabQuery(activeTabId, query)
    \/ UpdateTabName(activeTabId, NewName)
    \/ \E tabId \in TabIds(tabs) : SetActiveTab(tabId)
    \/ \E tabId \in TabIds(tabs) : CloseTab(tabId)
    \/ MarkTabAsSaved(activeTabId)
    \/ FreeIds >= 2 /\ DuplicateTab(activeTabId)
    \/ \E fromIndex \in 0..(Len(tabs) - 1), toIndex \in 0..(Len(tabs) - 1) :
           ReorderTabs(fromIndex, toIndex)
RegistrySpec == RegistryInit /\ [][RegistryNext]_vars

\* The editor edits, clears and saves the query of the active tab.
\* saveQuery() is the one caller of markTabAsSaved here.
TypedQueries == {EmptyText, GenericQuery}
ChangesNext ==
    \/ Mount
    \/ FreeIds >= 2 /\ CreateTab(EmptyText, EmptyText)
    \/ \E tabId \in TabIds(tabs) : SetActiveTab(tabId)
    \/ \E query \in TypedQueries : UpdateTabQuery(activeTabId, query)
    \/ \E confirmClear \in BOOLEAN : ClearEditor(confirmClear)
    \/ SaveQuery
ChangesSpec == RegistryInit /\ [][ChangesNext]_vars

\* The same with tabs duplicated.
SavedNext ==
    \/ ChangesNext
    \/ FreeIds >= 2 /\ DuplicateTab(activeTabId)
SavedSpec == RegistryInit /\ [][SavedNext]_vars

\* The editor's debounced update of the active tab's query.
DebounceNext ==
    \/ Mount
    \/ FreeIds >= 2 /\ CreateTab(EmptyText, EmptyText)
    \/ \E tabId \in TabIds(tabs) : SetActiveTab(tabId)
    \/ \E tabId \in TabIds(tabs) : CloseTab(tabId)
    \/ \E value \in TypedQueries : HandleQueryInput(value)
    \/ DebounceFires
DebounceSpec == RegistryInit /\ [][DebounceNext]_vars

\* The tab registry over a storage whose writes may fail.
StorageNext ==
    \/ \E ok \in BOOLEAN : QueryTabsMount(ok)
    \/ \E ok \in BOOLEAN : CreateTabStoring(ok)
    \/ \E tabId \in TabIds(tabs), ok \in BOOLEAN : SetActiveTabStoring(tabId, ok)
    \/ \E tabId \in TabIds(tabs), ok \in BOOLEAN : CloseTabStoring(tabId, ok)
StorageSpec == Init /\ [][StorageNext]_vars

\* The registry reloaded from what its operations left in the storage: each
\* of the two keys written or not.
RemountNext ==
    \/ \E ok \in BOOLEAN : QueryTabsMount(ok)
    \/ \E ok \in BOOLEAN : CreateTabStoring(ok)
    \/ \E tabId \in TabIds(tabs), ok \in BOOLEAN : SetActiveTabStoring(tabId, ok)
    \/ \E tabId \in TabIds(tabs) : SetActiveTabHalfStored(tabId)
RemountSpec == Init /\ [][RemountNext]_vars

\* The executions settle: the latency timer fires, and the dynamic import and
\* the fetch of the dataset resolve or reject, so a suspended executeQuery is
\* resumed.
Resume ==
    \E i \in 1..Len(inflight), importOk \in BOOLEAN, csvOk \in BOOLEAN, delay \in Delays :
        ExecuteQueryResume(i, importOk, csvOk, delay)
ExecNext ==
    \/ Mount
    \/ \E id \in TabIds(tabs), q \in RunQueries : ExecuteQuery(id, q)
    \/ Resume
    \/ \E id \in IdArgs : ClearResult(id)
LiveSpec == Init /\ [][ExecNext]_vars /\ WF_vars(Resume)

\* The result shown while tabs are opened, activated and closed and executions
\* are started and settle.
DisplayNext ==
    \/ EditorMount
    \/ FreeIds >= 2 /\ EditorCreateTab
    \/ \E tabId \in TabArgs : EditorSetActiveTab(tabId)
    \/ \E tabId \in TabArgs : EditorCloseTab(tabId)
    \/ \E tabId \in TabIds(tabs) : FreeIds >= 2 /\ EditorDuplicateTab(tabId)
    \/ \E result \in MapValues(results) : LoadQueryFromHistory(result)
    \/ \E tabId \in TabIds(tabs), query \in RunQueries : ExecuteQuery(tabId, query)
    \/ \E i \in 1..Len(inflight), importOk \in BOOLEAN, delay \in Delays :
           ExecuteQueryResume(i, importOk, TRUE, delay)
DisplaySpec == Init /\ [][DisplayNext]_vars

\* The history of the sidebar: executions fill it, the user empties it.
HistoryNext ==
    \/ Mount
    \/ CreateTab(EmptyText, EmptyText)
    \/ \E id \in TabIds(tabs), q \in RunQueries : ExecuteQuery(id, q)
    \/ Resume
    \/ \E i \in 1..Len(results), confirmed \in BOOLEAN : RemoveFromHistory(i, confirmed)
    \/ \E confirmed \in BOOLEAN : ClearAllHistory(confirmed)
HistorySpec == Init /\ [][HistoryNext]_vars

\* The pagination of the results panel over results of every length and every
\* page size.
RowCounts == (0..MaxRows) \cup {OrderRows}
PageSizes == (1..MaxPageSize) \cup {RowsPerPage}
PageArgs == ((0 - 1)..(MaxRows + 2)) \cup {currentPage - 1, currentPage + 1}
PageInit ==
    /\ tabs = <<>>
    /\ activeTabId = NoId
    /\ results = <<>>
    /\ isExecuting = FALSE
    /\ currentQueryId = NoId
    /\ currentResult = Null
    /\ localStorage = EmptyStorage
    /\ nextId = 1
    /\ initialized = FALSE
    /\ inflight = <<>>
    /\ executedTabs = {}
    /\ thrown = FALSE
    /\ currentPage = 1
    /\ rowsPerPage \in PageSizes
    /\ download = Null
    /\ parsed = Null
    /\ twin = [tabs |-> <<>>, activeTabId |-> NoId, ls |-> EmptyStorage, nextId |-> 1, ok |-> TRUE]
    /\ savedQuery = <<>>
    /\ lastQuery = <<>>
    /\ pendingUpdate = Null
    /\ settings = DefaultSettings
PageNext ==
    \/ \E page \in PageArgs : GoToPage(page)
    \/ \E n \in RowCounts : ShowResult(PageResult(n))
    \/ ShowResult(Null)
PageSpec == PageInit /\ [][PageNext]_vars

\* The settings store: initialize() and the setters, over the storages an
\* earlier session of the program leaves.
SetSettingsState(ss) ==
    /\ settings' = ss.settings
    /\ localStorage' = ss.ls
    /\ UNCHANGED <<tabVars, resultVars, nextId, initialized, inflight, pageVars,
                   download, parsed, twin, savedQuery, lastQuery, pendingUpdate>>
SettingsInitialize(currentTheme) == SetSettingsState(settingsInitialize(SettingsState, currentTheme))
SetTheme(newTheme) == SetSettingsState(setTheme(SettingsState, newTheme))
ToggleTheme == SetSettingsState(toggleTheme(SettingsState))
SetFontSize(size) == SetSettingsState(setFontSize(SettingsState, size))
SetAutoSave(enabled) == SetSettingsState(setAutoSave(SettingsState, enabled))
SetShowLineNumbers(show) == SetSettingsState(setShowLineNumbers(SettingsState, show))
SetWordWrap(wrap) == SetSettingsState(setWordWrap(SettingsState, wrap))

FontMargin == 2
FontSizes ==
    ((MinFontSize - FontMargin)..(MaxFontSize + FontMargin))
        \cup {0 - MaxFontSize, 0 - 1, 0, 1, MaxFontSize * MaxFontSize}
EarlierSettings ==
    {setFontSize([settings |-> DefaultSettings, ls |-> EmptyStorage], size).ls : size \in FontSizes}
SettingsInit ==
    /\ tabs = <<>>
    /\ activeTabId = NoId
    /\ results = <<>>
    /\ isExecuting = FALSE
    /\ currentQueryId = NoId
    /\ currentResult = Null
    /\ localStorage \in {EmptyStorage} \cup EarlierSettings
    /\ nextId = 1
    /\ initialized = FALSE
    /\ inflight = <<>>
    /\ executedTabs = {}
    /\ thrown = FALSE
    /\ currentPage = 1
    /\ rowsPerPage = RowsPerPage
    /\ download = Null
    /\ parsed = Null
    /\ twin = [tabs |-> <<>>, activeTabId |-> NoId, ls |-> EmptyStorage, nextId |-> 1, ok |-> TRUE]
    /\ savedQuery = <<>>
    /\ lastQuery = <<>>
    /\ pendingUpdate = Null
    /\ settings = DefaultSettings
SettingsNext ==
    \/ \E currentTheme \in Themes : SettingsInitialize(currentTheme)
    \/ \E size \in FontSizes : SetFontSize(size)
    \/ ToggleTheme
    \/ \E newTheme \in Themes : SetTheme(newTheme)
    \/ \E enabled \in BOOLEAN : SetAutoSave(enabled)
    \/ \E show \in BOOLEAN : SetShowLineNumbers(show)
    \/ \E wrap \in BOOLEAN : SetWordWrap(wrap)
SettingsSpec == SettingsInit /\ [][SettingsNext]_vars

\* The cells of the results panel over values of every type.
ClassChars == {"a", "2", "-", "@", "."}
ClassTexts ==
    UNION {[1..n -> ClassChars] : n \in 0..MaxCellLen}
        \cup {<<"2", "0", "2", "4", "-", "0", "1", "-", "0", "1">>,
              <<"2", "0", "2", "4", "-", "0", "1", "-", "0", "1", "T", "0", "9", ":", "3", "0">>,
              <<"2", "0", "2", "4", "-", "0", "1", "-", "0", "1", "@", "a", ".", "b">>,
              <<"2", "0", "2", "4", "-", "1", "-", "0", "1">>,
              <<"x", "2", "0", "2", "4", "-", "0", "1", "-", "0", "1">>,
              <<"a", "@", "b", ".", "c", "o", "m">>}
CellValues ==
    {NullValue, ObjectValue, BooleanValue(TRUE), BooleanValue(FALSE)}
        \cup {NumberValue(n) : n \in {0, 999, 1000, 1234567}}
        \cup {StringValue(t) : t \in ClassTexts}
CellResult(value) ==
    [utilExecuteQuery(DefaultQuery, TRUE, nextId, MinDelayMs) EXCEPT
        !.data = << << <<TextColumn, value>> >> >>, !.rowCount = 1]
\* the values in the cells of the result shown
shownCells ==
    IF currentResult = Null THEN {}
    ELSE UNION {{currentResult.data[i][k][2] : k \in 1..Len(currentResult.data[i])} :
                   i \in 1..Len(currentResult.data)}
CellInit == PageInit /\ rowsPerPage = RowsPerPage
CellNext == \E value \in CellValues : ShowResult(CellResult(value))
CellSpec == CellInit /\ [][CellNext]_vars

(***************************************************************************)
(* Properties.                                                             *)
(***************************************************************************)
activeTabs == {i \in 1..Len(tabs) : tabs[i].isActive}
persistedResults == MapFrom(localStorage.queryResults)

\* C1: once initialize() has run the tab list is never empty, and a step that
\* closes the only tab leaves exactly one tab: a new one, named 'Sample Query'
\* and holding the default query 'SELECT * FROM orders LIMIT 20'.
C1_TabListNeverEmpty ==
    /\ [](initialized => Len(tabs) >= 1)
    /\ [][(initialized /\ Len(tabs) = 1 /\ tabs[1].id \notin TabIds(tabs'))
            => /\ Len(tabs') = 1
               /\ tabs'[1].id = nextId
               /\ tabs'[1].name = SampleQueryName
               /\ tabs'[1].query = DefaultQuery]_vars
\* the only tab was closed and the default tab made in its place
C1_SoleTabReplaced ==
    /\ initialized
    /\ Len(tabs) = 1
    /\ tabs[1].id = 2
    /\ tabs[1].query = DefaultQuery

\* C2: once initialize() has run, every sequence of createTab, setActiveTab
\* (with an id the list has or has not) and closeTab leaves exactly one tab
\* with its active flag set.
C2_ExactlyOneActive == initialized => Cardinality(activeTabs) = 1

\* C3: in every reachable state the result shown is absent or is one of the
\* results the cache stores.
C3_CurrentResultStored == currentResult = Null \/ currentResult \in MapValues(results)

\* C4: a step that removes a tab from the list leaves the stored results as
\* they were, and a stored result leaves the cache only in a clearResult or a
\* clearAllResults step.
C4_CloseKeepsResults ==
    [][/\ (TabIds(tabs) \ TabIds(tabs') # {}) => results' = results
       /\ ((MapKeys(results) \ MapKeys(results') # {}) /\ initialized)
            => (ClearAllResults \/ \E id \in IdArgs : ClearResult(id))]_vars
\* a closed tab's result is still stored
C4_ClosedTabResultKept ==
    /\ initialized
    /\ MapKeys(results) \ TabIds(tabs) # {}

\* C5: when the execution service fails, the execution raises nothing to its
\* caller: it stores under the tab id a result with status error, no rows,
\* rowCount 0 and executionTime 0, carrying the query, and shows that result.
C5_FailureStoresErrorResult ==
    [][\A i \in 1..Len(inflight), csvOk \in BOOLEAN, delay \in Delays :
          ExecuteQueryResume(i, FALSE, csvOk, delay)
            => /\ ~thrown'
               /\ MapHas(results', inflight[i].tabId)
               /\ MapGet(results', inflight[i].tabId).status = "error"
               /\ MapGet(results', inflight[i].tabId).data = <<>>
               /\ MapGet(results', inflight[i].tabId).rowCount = 0
               /\ MapGet(results', inflight[i].tabId).executionTime = 0
               /\ MapGet(results', inflight[i].tabId).query = inflight[i].query
               /\ currentResult' = MapGet(results', inflight[i].tabId)]_vars
\* a failed execution's result is stored and shown
C5_ErrorResultShown ==
    /\ currentResult # Null
    /\ currentResult.status = "error"
    /\ currentResult \in MapValues(results)
    /\ ~thrown

\* C6: every execution that passed the blank-query guard finishes; the step
\* that finishes one leaves isExecuting false and currentQueryId empty; and
\* whenever no execution is in flight isExecuting is false.
C6_ExecutionFinishes ==
    /\ [](inflight = <<>> => (~isExecuting /\ currentQueryId = NoId))
    /\ [][Len(inflight') < Len(inflight) => (~isExecuting' /\ currentQueryId' = NoId)]_vars
    /\ \A n \in 1..MaxInflight : (Len(inflight) = n) ~> (Len(inflight) < n)
    /\ (inflight # <<>>) ~> (inflight = <<>>)
\* an execution of this session has finished and none is in flight
C6_AllFinished ==
    /\ inflight = <<>>
    /\ ~isExecuting
    /\ \E r \in MapValues(results) : r.id < nextId

\* C7: the cache holds at most one result for a tab id; a result an execution
\* puts in the place of another has another id; and the cache never holds
\* more results than there are tab ids that were executed.
C7_OneResultPerTab ==
    /\ [](/\ \A i, j \in 1..Len(results) : results[i][1] = results[j][1] => i = j
          /\ Len(results) <= Cardinality(executedTabs))
    /\ [][\A k \in MapKeys(results) \cap MapKeys(results') :
             MapGet(results', k) # MapGet(results, k)
               => MapGet(results', k).id # MapGet(results, k).id]_vars
\* an execution has replaced the result the storage still holds for the tab
C7_ResultReplaced ==
    \E k \in MapKeys(results) \cap MapKeys(persistedResults) :
        MapGet(results, k).id # MapGet(persistedResults, k).id

\* C8: the execution service resolves with status success for every query
\* text; for a query naming orders whose dataset cannot be fetched or parsed
\* it resolves with generated rows, and nothing is raised.
C8_ServiceAlwaysSucceeds ==
    [][\A i \in 1..Len(inflight), csvOk \in BOOLEAN, delay \in Delays :
          ExecuteQueryResume(i, TRUE, csvOk, delay)
            => /\ ~thrown'
               /\ currentResult'.status = "success"
               /\ currentResult'.query = inflight[i].query
               /\ currentResult'.rowCount = Len(currentResult'.data)
               /\ (asksForOrders(toLowerCase(inflight[i].query)) /\ ~csvOk)
                    => currentResult'.data \in {generateCustomerData, generateOrderData,
                                                generateProductData, generateGenericData}]_vars
\* the fallback rows of an orders query whose dataset did not load are shown
C8_FallbackShown ==
    /\ currentResult # Null
    /\ currentResult.status = "success"
    /\ currentResult.query = FranceQuery
    /\ currentResult.data = generateOrderData

\* C9: the pages 1..totalPages, each the rows from (p-1)*size up to
\* min(p*size, N), put one after the other are the result's rows: none is
\* doubled, left out or moved; totalPages is the least number of pages of
\* that size that hold N rows, and 0 when no result is shown.
RECURSIVE PagesUpTo(_)
PagesUpTo(p) ==
    IF p <= 0 THEN <<>>
    ELSE PagesUpTo(p - 1) \o paginatedDataOf(currentResult, p, rowsPerPage)
C9_PagesCoverResult ==
    /\ currentResult = Null => totalPages = 0
    /\ currentResult # Null =>
          /\ totalPages * rowsPerPage >= Len(currentResult.data)
          /\ totalPages >= 1 => (totalPages - 1) * rowsPerPage < Len(currentResult.data)
          /\ totalPages >= 0
          /\ PagesUpTo(totalPages) = currentResult.data
          /\ \A p \in 1..totalPages :
                paginatedDataOf(currentResult, p, rowsPerPage) =
                    SubSeq(currentResult.data, (p - 1) * rowsPerPage + 1,
                           Min(p * rowsPerPage, Len(currentResult.data)))
\* the last, partly filled page of a result of several pages is shown
C9_LastPartialPage ==
    /\ currentResult # Null
    /\ totalPages >= 2
    /\ currentPage = totalPages
    /\ Len(currentResult.data) % rowsPerPage # 0
    /\ Len(paginatedData) = Len(currentResult.data) % rowsPerPage

\* C10 as stated: goToPage(p) leaves currentPage at p clamped into
\* [1, totalPages] for every result, one without rows included: 1 for p <= 0,
\* totalPages for p above totalPages, p otherwise.
C10_ClampedIntoRange ==
    [][\A p \in PageArgs :
          GoToPage(p) => currentPage' = IF p <= 0 THEN 1
                                        ELSE IF p > totalPages THEN totalPages
                                        ELSE p]_vars
\* C10, amended: goToPage(p) leaves currentPage at max(1, min(p, totalPages)):
\* p clamped into [1, totalPages] when there is a page, and 1, which is above
\* totalPages, when totalPages is 0.
C10_ClampedOrFirst ==
    /\ [](\A p \in PageArgs :
            /\ totalPages >= 1 =>
                  goToPage(p, totalPages) = IF p <= 0 THEN 1
                                            ELSE IF p > totalPages THEN totalPages
                                            ELSE p
            /\ totalPages = 0 => goToPage(p, totalPages) = 1)
    /\ [][\A p \in PageArgs :
             GoToPage(p) => /\ totalPages >= 1 =>
                                 /\ currentPage' \in 1..totalPages
                                 /\ currentPage' = IF p <= 0 THEN 1
                                                   ELSE IF p > totalPages THEN totalPages
                                                   ELSE p
                            /\ totalPages = 0 => currentPage' = 1]_vars
\* goToPage has moved to the last of several pages
C10_MovedToLastPage ==
    /\ currentResult # Null
    /\ totalPages >= 3
    /\ currentPage = totalPages

\* C11: with the dataset loaded, an orders query with shipCountry = 'c' and
\* LIMIT n resolves with at most n rows, each with shipCountry equal to c up
\* to case; one with freight > t resolves only with rows whose freight, read
\* as a number, is greater than t (and at most n rows under LIMIT n); for the
\* countries, limits and thresholds of the model, 'France' with 5 and 100
\* among them.
C11_FiltersKeepMatchingRows ==
    (currentResult # Null /\ currentResult.status = "success") =>
        /\ \A c \in Countries, n \in Limits :
              currentResult.query = CountryQueryOf(c, n) =>
                  /\ n # NoLimit => Len(currentResult.data) <= n
                  /\ \A k \in 1..Len(currentResult.data) :
                        toLowerCase(currentResult.data[k].shipCountry) = toLowerCase(c)
        /\ \A t \in Thresholds, n \in Limits :
              currentResult.query = FreightQueryOf(t, n) =>
                  /\ n # NoLimit => Len(currentResult.data) <= n
                  /\ \A k \in 1..Len(currentResult.data) :
                        /\ ~parseFloat(currentResult.data[k].freight).nan
                        /\ parseFloat(currentResult.data[k].freight).num
                               > t * parseFloat(currentResult.data[k].freight).den
\* the France query with LIMIT 5 has resolved with both French orders
C11_FranceRowsShown ==
    /\ currentResult # Null
    /\ currentResult.query = FranceQuery
    /\ FranceQuery = CountryQueryOf(<<"F", "r", "a", "n", "c", "e">>, 5)
    /\ FreightQuery = FreightQueryOf(100, NoLimit)
    /\ Len(currentResult.data) = 2

\* C12: the rows parseCSV makes of the text exportToCSV made of a table are
\* as many as the table's, and each cell of a text or number column is the
\* text of the table's cell (a number's decimal digits), whatever commas,
\* double quotes or newlines a text cell holds.
C12_CsvRoundTrip ==
    (parsed # Null /\ currentResult.data # <<>>) =>
        /\ Len(parsed.rows) = Len(currentResult.data)
        /\ \A i \in 1..Len(currentResult.data) :
              \A k \in 1..Len(currentResult.data[i]) :
                  /\ i <= Len(parsed.rows)
                  /\ rowGet(parsed.rows[i], currentResult.data[i][k][1])
                        = StringValue(joinText(currentResult.data[i][k][2]))

\* C13: every cell value has one class, by this precedence: null or
\* undefined is cell-null and is shown as the empty text; a number is
\* cell-number; a boolean is cell-boolean and is shown as true or false; a
\* string that begins with dddd-dd-dd is cell-date; any other string with
\* both '@' and '.' is cell-email; any other string is cell-string; every
\* other value is cell-object.
C13_DateLike(text) ==
    /\ Len(text) >= 10
    /\ \A i \in {1, 2, 3, 4, 6, 7, 9, 10} : text[i] \in {"0", "1", "2", "3", "4", "5", "6", "7", "8", "9"}
    /\ text[5] = "-" /\ text[8] = "-"
C13_EmailLike(text) == (\E i \in 1..Len(text) : text[i] = "@") /\ (\E i \in 1..Len(text) : text[i] = ".")
C13_CellClassification ==
    \A value \in shownCells :
        /\ getCellClass(value) \in {"cell-null", "cell-number", "cell-boolean", "cell-date",
                                    "cell-email", "cell-string", "cell-object"}
        /\ getCellClass(value) = "cell-null" <=> value.type = "null"
        /\ value.type = "null" => formatCellValue(value) = <<>>
        /\ getCellClass(value) = "cell-number" <=> value.type = "number"
        /\ getCellClass(value) = "cell-boolean" <=> value.type = "boolean"
        /\ value.type = "boolean" =>
              formatCellValue(value) = IF value.bool THEN <<"t", "r", "u", "e">>
                                       ELSE <<"f", "a", "l", "s", "e">>
        /\ getCellClass(value) = "cell-date" <=>
              (value.type = "string" /\ C13_DateLike(value.text))
        /\ getCellClass(value) = "cell-email" <=>
              (value.type = "string" /\ ~C13_DateLike(value.text) /\ C13_EmailLike(value.text))
        /\ getCellClass(value) = "cell-string" <=>
              (value.type = "string" /\ ~C13_DateLike(value.text) /\ ~C13_EmailLike(value.text))
        /\ getCellClass(value) = "cell-object" <=>
              value.type \notin {"null", "number", "boolean", "string"}
\* a text that starts like a date and also holds '@' and '.' is shown as a date
C13_DateBeforeEmail ==
    \E value \in shownCells :
        /\ value.type = "string"
        /\ C13_DateLike(value.text)
        /\ C13_EmailLike(value.text)
        /\ getCellClass(value) = "cell-date"

\* C14: setActiveTab with an id that no tab of the list has is a no-op: the
\* tab list with every tab's active flag, and activeTabId, are after the call
\* what they were before it.
C14_AbsentIdIsNoOp ==
    [][\A tabId \in TabArgs :
          (tabId \notin TabIds(tabs) /\ SetActiveTab(tabId)) =>
              (tabs' = tabs /\ activeTabId' = activeTabId)]_vars

\* C15: initialize() of the tab registry, called when the list has tabs, leaves
\* the list as it is whatever the storage holds, and calling it twice gives
\* the list that calling it once gives.
C15_InitializeKeepsTabs ==
    \A ok \in BOOLEAN :
        /\ tabs # <<>> => initialize(TabStateWhen(ok)).tabs = tabs
        /\ initialize(initialize(TabStateWhen(ok))).tabs = initialize(TabStateWhen(ok)).tabs

\* C17: after every sequence of operations the tab list and activeTabId are
\* what they are in the browser whose every storage write succeeds, and no
\* operation has raised.
C17_FailuresInvisible ==
    /\ tabs = twin.tabs
    /\ activeTabId = twin.activeTabId
    /\ ~thrown

\* C16: a query that fails validation (empty, no leading SQL keyword, or
\* unbalanced parentheses) is not dispatched: running it leaves the result
\* map, the result shown and the executing flag as they are, and no stored
\* result is the result of such a query.
C16_InvalidNeverDispatched ==
    /\ [][\A queryInput \in EditorQueries :
             (~validateQuery(queryInput) /\ RunQuery(queryInput)) =>
                 UNCHANGED <<results, currentResult, isExecuting>>]_vars
    /\ [](\A i \in 1..Len(results) : validateQuery(results[i][2].query))

\* C18: with a working storage, after each of createTab, updateTabQuery,
\* updateTabName, setActiveTab, closeTab, markTabAsSaved, duplicateTab and
\* reorderTabs the stored 'query-tabs' value is the tab list in memory and the
\* stored 'active-tab-id' is activeTabId.
C18_RegistryPersisted ==
    initialized =>
        /\ localStorage.queryTabs = jsonTabs(tabs)
        /\ localStorage.activeTabId = activeTabId
\* a renamed, edited and saved copy has been moved to the front of the list
C18_MutatedAndStored ==
    /\ initialized
    /\ Len(tabs) >= 2
    /\ tabs[1].id > tabs[2].id
    /\ tabs[1].isSaved
    /\ tabs[1].name = NewName
    /\ tabs[2].query = GenericQuery
    /\ localStorage.queryTabs = jsonTabs(tabs)

\* C19: with a working storage, after every completed mutation of the result
\* map (an execution that ends with a success result or with an error result,
\* clearResult, clearAllResults) the stored 'query-results' value is the
\* entries of the result map in memory.
C19_CachePersisted == initialized => localStorage.queryResults = jsonEntries(results)

\* C20: when the user confirms the removal of a history entry, that result
\* is no longer in the result map and every other stored result stays.
C20_HistoryEntryRemoved ==
    \A i \in 1..Len(results) :
        /\ results[i][2] \notin MapValues(removeFromHistory(results, results[i][2], TRUE))
        /\ \A j \in 1..Len(results) :
              j # i => results[j][2] \in MapValues(removeFromHistory(results, results[i][2], TRUE))

\* C21: a tab whose query is not the text it held at its last markTabAsSaved
\* has hasChanges set: an updateTabQuery to another text sets the flag and the
\* flag stays until the next markTabAsSaved.
C21_ModifiedMeansChanged ==
    \A i \in 1..Len(tabs) :
        (MapHas(savedQuery, tabs[i].id) /\ tabs[i].query # MapGet(savedQuery, tabs[i].id))
            => tabs[i].hasChanges

\* C22: in every state the settings' initialize() and setFontSize(size), for
\* any integer size, lead to, 10 <= fontSize <= 24, and setFontSize(size)
\* stores the size clamped into that range.
C22_FontSizeBounded ==
    /\ settings.fontSize >= 10
    /\ settings.fontSize <= 24
    /\ \A size \in FontSizes :
          setFontSize(SettingsState, size).settings.fontSize
              = IF size < 10 THEN 10 ELSE IF size > 24 THEN 24 ELSE size
\* a size above the range has been asked for and 24 is stored
C22_LargestSizeStored ==
    /\ settings.fontSize = 24
    /\ localStorage.appSettings # Null
    /\ localStorage.appSettings.fontSize = 24
    /\ settings.theme = DarkTheme

\* the in-flight executions of a tab
inflightOf(tabId) == {i \in 1..Len(inflight) : inflight[i].tabId = tabId}

\* C23: whenever an executeQuery call has started and not yet finished, the
\* isExecuting flag is set.
C23_ExecutingWhileInFlight == inflight # <<>> => isExecuting

\* C24: once no execution of a tab is in flight, the result stored under the
\* tab's id is the result of the execution started last for it: its query
\* is the text submitted last.
C24_LastStartedWins ==
    \A tabId \in MapKeys(lastQuery) :
        (inflightOf(tabId) = {} /\ MapHas(results, tabId))
            => MapGet(results, tabId).query = MapGet(lastQuery, tabId)

\* C25: when the debounce timer fires, the tab that was active at the
\* keystroke gets the typed text as its query, and no other tab's query
\* changes, also when another tab has become active in between.
C25_UpdateGoesToTypedTab ==
    [][(DebounceFires /\ pendingUpdate.typedIn \in TabIds(tabs)) =>
          \A i \in 1..Len(tabs) :
              tabs'[i].query = IF tabs[i].id = pendingUpdate.typedIn THEN pendingUpdate.query
                               ELSE tabs[i].query]_vars

\* C26: whenever no execution is in flight and a tab is active, the result
\* shown is the active tab's stored result, or absent if it has none, also
\* after an execution started on one tab settles while another tab is active.
C26_ShownIsActiveTabResult ==
    (initialized /\ inflight = <<>> /\ getActiveTab(tabs, activeTabId) # Null)
        => currentResult = getResult(results, activeTabId)

\* C27: an execution in flight is not cancelled when its tab is closed or
\* another tab is activated: no change of the registry removes a suspended
\* execution, and when the execution settles its result is stored under the
\* id it was started with, whether or not the registry still has that tab.
C27_ClosedTabExecutionStored ==
    [][/\ (tabs' # tabs \/ activeTabId' # activeTabId) => inflight' = inflight
       /\ \A i \in 1..Len(inflight) :
              inflight' = RemoveAt(inflight, i)
                => /\ MapHas(results', inflight[i].tabId)
                   /\ MapGet(results', inflight[i].tabId).query = inflight[i].query
                   /\ MapGet(results', inflight[i].tabId).id = nextId]_vars
\* the last tab was closed while its execution was in flight (the sample tab
\* that closeTab opened is older than the result), and the result is stored
\* under the closed tab's id
C27_StoredAfterClose ==
    \E tabId \in MapKeys(results) \ TabIds(tabs) :
        /\ Len(tabs) = 1
        /\ tabs[1].name = SampleQueryName
        /\ tabs[1].id > tabId
        /\ MapGet(results, tabId).id > tabs[1].id

\* C28: an execution started for a tab never adds, replaces or removes the
\* stored result of another tab: starting an execution leaves the result map
\* as it is, and the step in which an execution settles leaves every entry
\* but its own tab's as it was, however the executions interleave.
C28_ExecutionsIsolated ==
    [][/\ Len(inflight') > Len(inflight) => results' = results
       /\ \A i \in 1..Len(inflight) :
              inflight' = RemoveAt(inflight, i)
                => \A tabId \in (MapKeys(results) \cup MapKeys(results')) \ {inflight[i].tabId} :
                       /\ MapHas(results, tabId)
                       /\ MapHas(results', tabId)
                       /\ MapGet(results', tabId) = MapGet(results, tabId)]_vars
\* two tabs hold results while the execution of one of them, started before
\* the other's result was stored, is still in flight
C28_SettledBesideInFlight ==
    \E i \in 1..Len(inflight), tabId \in MapKeys(results) :
        /\ tabId # inflight[i].tabId
        /\ MapHas(results, inflight[i].tabId)
        /\ ~isExecuting
        /\ MapGet(results, tabId).id > MapGet(results, inflight[i].tabId).id

C30_CloseTabActivation ==
    \A tabId \in TabArgs :
        LET st == closeTab(TabState, tabId)
            closedIndex == findIndex(tabs, tabId) - 1
            remaining == SelectSeqNotId(tabs, tabId)
            k == Len(remaining)
        IN  /\ tabId \notin TabIds(tabs) => st = TabState
            /\ (tabId \in TabIds(tabs) /\ activeTabId = tabId /\ k >= 1)
                 => /\ st.activeTabId = remaining[Min(closedIndex, k - 1) + 1].id
                    /\ \A i \in 1..k : st.tabs[i].isActive = (i = Min(closedIndex, k - 1) + 1)
            /\ (tabId \in TabIds(tabs) /\ activeTabId # tabId)
                 => /\ st.activeTabId = activeTabId
                    /\ \A i \in 1..k : st.tabs[i].isActive = remaining[i].isActive
            /\ tabId \in TabIds(tabs)
                 => /\ Len(st.tabs) >= k
                    /\ \A i \in 1..k : [st.tabs[i] EXCEPT !.isActive = FALSE]
                                         = [remaining[i] EXCEPT !.isActive = FALSE]

\* C31: in every reachable state a tab has its isActive flag set if and only
\* if its id is activeTabId, and the activeTab getter returns that tab; so
\* after initialize() from storage and after every operation of the registry.
C31_ActiveFlagAgrees ==
    /\ \A i \in 1..Len(tabs) : tabs[i].isActive <=> (tabs[i].id = activeTabId)
    /\ \A i \in 1..Len(tabs) : tabs[i].isActive => getActiveTab(tabs, activeTabId) = tabs[i]

\* C32: updateTabQuery(id, text) sets that tab's query to text and its
\* hasChanges to (not isSaved) or (text is not empty), leaves every other
\* tab, the order and activeTabId as they were, and changes no tab when no
\* tab has the id.
C32_UpdateTabQueryEffect ==
    \A tabId \in TabArgs, query \in TypedQueries :
        LET st == updateTabQuery(TabState, tabId, query)
        IN  /\ Len(st.tabs) = Len(tabs)
            /\ st.activeTabId = activeTabId
            /\ tabId \notin TabIds(tabs) => st.tabs = tabs
            /\ \A i \in 1..Len(tabs) :
                   IF tabs[i].id = tabId
                   THEN /\ st.tabs[i].query = query
                        /\ st.tabs[i].hasChanges = (~tabs[i].isSaved \/ query # EmptyText)
                        /\ [st.tabs[i] EXCEPT !.query = EmptyText, !.hasChanges = FALSE]
                             = [tabs[i] EXCEPT !.query = EmptyText, !.hasChanges = FALSE]
                   ELSE st.tabs[i] = tabs[i]
\* a saved tab was emptied and counts as unchanged, beside a tab that is not
\* saved, was given an empty text and counts as changed
C32_SavedEmptiedUnsavedChanged ==
    \E i, j \in 1..Len(tabs) :
        /\ tabs[i].isSaved /\ tabs[i].query = EmptyText /\ ~tabs[i].hasChanges
        /\ ~tabs[j].isSaved /\ tabs[j].query = EmptyText /\ tabs[j].hasChanges

\* C33: createTab always succeeds: it appends exactly one tab at the end of
\* the list, with an id no tab of the registry has, isSaved and hasChanges
\* false and a name that defaults to "Query n", n the number of tabs after
\* the creation; it makes that tab the active one and returns its id; the
\* tabs there were keep their contents and order; and the ids of the tabs
\* are pairwise distinct in every reachable state.
C33_CreateTabAppends ==
    /\ \A i, j \in 1..Len(tabs) : tabs[i].id = tabs[j].id => i = j
    /\ \A name \in {EmptyText, SampleQueryName}, initialQuery \in TypedQueries :
           LET st == createTab(TabState, name, initialQuery)
               n == Len(tabs) + 1
           IN  /\ Len(st.tabs) = n
               /\ st.tabs[n].id \notin TabIds(tabs)
               /\ st.tabs[n].id = nextId
               /\ st.activeTabId = st.tabs[n].id
               /\ st.tabs[n].isActive
               /\ ~st.tabs[n].isSaved
               /\ ~st.tabs[n].hasChanges
               /\ st.tabs[n].query = initialQuery
               /\ st.tabs[n].name = IF name # EmptyText THEN name
                                    ELSE QueryPrefix \o NatToText(n)
               /\ \A i \in 1..Len(tabs) :
                      /\ ~st.tabs[i].isActive
                      /\ [st.tabs[i] EXCEPT !.isActive = FALSE] = [tabs[i] EXCEPT !.isActive = FALSE]
\* a second tab was created without a name: it is the last and the active
\* one, carries the default name of its position and the id handed out last
C33_SecondTabCreated ==
    /\ Len(tabs) = 2
    /\ tabs[2].name = QueryPrefix \o NatToText(2)
    /\ tabs[2].id = nextId - 1
    /\ tabs[2].id # tabs[1].id
    /\ activeTabId = tabs[2].id
    /\ tabs[2].isActive /\ ~tabs[1].isActive
    /\ ~tabs[2].isSaved /\ ~tabs[2].hasChanges
    /\ tabs[2].query = EmptyText

\* C34: duplicateTab(id) of a tab of the registry appends one tab with a
\* fresh id, the source's query, the source's name followed by " (Copy)" and
\* hasChanges set, and makes the copy the active tab; the source tab, and
\* every other tab, is as it was; for an id no tab has, nothing changes.
C34_DuplicateTabAppendsCopy ==
    \A tabId \in TabArgs :
        LET st == duplicateTab(TabState, tabId)
            n == Len(tabs) + 1
        IN  IF tabId \notin TabIds(tabs) THEN st = TabState
            ELSE /\ Len(st.tabs) = n
                 /\ st.tabs[n].id = nextId
                 /\ st.tabs[n].id \notin TabIds(tabs)
                 /\ st.tabs[n].query = getTab(tabs, tabId).query
                 /\ st.tabs[n].name = getTab(tabs, tabId).name \o CopySuffix
                 /\ st.tabs[n].hasChanges
                 /\ st.tabs[n].isActive
                 /\ st.activeTabId = st.tabs[n].id
                 /\ \A i \in 1..Len(tabs) :
                        /\ ~st.tabs[i].isActive
                        /\ [st.tabs[i] EXCEPT !.isActive = FALSE]
                             = [tabs[i] EXCEPT !.isActive = FALSE]
\* the last tab is the active copy of an unchanged tab: it has the source's
\* query and name with the suffix, and counts as changed
C34_CopyOfUnchangedTab ==
    \E i \in 1..(Len(tabs) - 1) :
        /\ tabs[Len(tabs)].name = tabs[i].name \o CopySuffix
        /\ tabs[Len(tabs)].query = tabs[i].query
        /\ tabs[Len(tabs)].hasChanges
        /\ ~tabs[i].hasChanges
        /\ activeTabId = tabs[Len(tabs)].id
        /\ tabs[Len(tabs)].id > tabs[i].id

\* C35: a tab's isSaved is true only once the tab has been marked saved: in
\* every state reachable in the browser a tab with isSaved set is a tab for
\* whose id markTabAsSaved has been called.
C35_SavedOnlyWhenMarked ==
    \A i \in 1..Len(tabs) : tabs[i].isSaved => MapHas(savedQuery, tabs[i].id)

\* C36: running a query clears the tab's change state only on success: when
\* the execution that runQuery started settles with a success result the tab
\* is marked saved (isSaved set, hasChanges cleared); when it settles with an
\* error result the tab's isSaved and hasChanges are what they were; and a
\* hasChanges that is clear becomes set only in a step that changes the query.
C36_SavedOnlyOnSuccess ==
    [][/\ \A i \in 1..Len(inflight) :
              (/\ inflight' = RemoveAt(inflight, i)
               /\ inflight[i].tabId \in TabIds(tabs)
               /\ MapHas(results', inflight[i].tabId))
                => IF MapGet(results', inflight[i].tabId).status = "success"
                   THEN /\ getTab(tabs', inflight[i].tabId).isSaved
                        /\ ~getTab(tabs', inflight[i].tabId).hasChanges
                   ELSE /\ getTab(tabs', inflight[i].tabId).isSaved
                             = getTab(tabs, inflight[i].tabId).isSaved
                        /\ getTab(tabs', inflight[i].tabId).hasChanges
                             = getTab(tabs, inflight[i].tabId).hasChanges
       /\ \A tabId \in TabIds(tabs) \cap TabIds(tabs') :
              (~getTab(tabs, tabId).hasChanges /\ getTab(tabs', tabId).hasChanges)
                => getTab(tabs', tabId).query # getTab(tabs, tabId).query]_vars

\* C37: reorderTabs(fromIndex, toIndex) moves a tab and changes nothing else:
\* for any integer arguments the list it leaves is a permutation of the tabs
\* there were (as many, the same ids and fields) and activeTabId is as it
\* was; for 0 <= fromIndex, toIndex < length the moved tab ends at position
\* toIndex and the other tabs keep their relative order.
C37_ReorderPermutes ==
    initialized =>
        \A fromIndex, toIndex \in (0 - Len(tabs) - 1)..(Len(tabs) + 1) :
            LET st == reorderTabs(TabState, fromIndex, toIndex)
            IN  /\ Len(st.tabs) = Len(tabs)
                /\ \A i \in 1..Len(tabs) : \E j \in 1..Len(tabs) : st.tabs[j] = tabs[i]
                /\ st.activeTabId = activeTabId
                /\ (fromIndex \in 0..(Len(tabs) - 1) /\ toIndex \in 0..(Len(tabs) - 1))
                     => /\ st.tabs[toIndex + 1] = tabs[fromIndex + 1]
                        /\ SelectSeqNotId(st.tabs, tabs[fromIndex + 1].id)
                             = SelectSeqNotId(tabs, tabs[fromIndex + 1].id)

\* C38: executeQuery(tabId, queryText) with a queryText that is empty or only
\* whitespace is a no-op: isExecuting, currentQueryId, the result map,
\* currentResult and persisted storage are all as they were, and the
\* execution service is not invoked (no execution in flight has such a text).
C38_BlankQueryIsNoOp ==
    /\ \A tabId \in TabArgs, query \in {EmptyText, <<" ">>, BlankQuery} :
           executeQueryBegin(CacheState, tabId, query) = CacheState
    /\ \A i \in 1..Len(inflight) : trim(inflight[i].query) # EmptyText

\* a state with an execution in flight beside a stored, shown result, where
\* a blank executeQuery would have something to disturb
C38_BlankCallWhileExecuting ==
    /\ initialized
    /\ isExecuting
    /\ currentQueryId # NoId
    /\ results # <<>>
    /\ currentResult # Null
    /\ Len(inflight) = 1
    /\ executeQueryBegin(CacheState, activeTabId, BlankQuery) = CacheState

\* C39: on the dataset path the filters apply in a fixed order: the rows are
\* cut to the first n under LIMIT n, then the rows whose shipCountry is not
\* the quoted value up to case are dropped, then the rows whose freight does
\* not exceed the threshold, and at last the result is cut to 1000 rows; the
\* rows keep their order, rowCount is the number of rows returned, and no
\* result has more than 1000 rows.  kept is the set of positions of the
\* dataset among the first n whose rows pass the patterns of the query.
C39_Kept(data, n, countries, thresholds) ==
    {i \in 1..(IF n = NoLimit THEN Len(data) ELSE Min(n, Len(data))) :
        /\ \A c \in countries :
              /\ data[i].shipCountry # EmptyText
              /\ toLowerCase(data[i].shipCountry) = toLowerCase(c)
        /\ \A t \in thresholds :
              /\ ~parseFloat(data[i].freight).nan
              /\ parseFloat(data[i].freight).num > t * parseFloat(data[i].freight).den}
\* the orderID of a row of the model's datasets is its position
C39_Pos(row) == parseInt(row.orderID)
C39_FirstKept(data, rows, kept) ==
    /\ Len(rows) = Min(Cardinality(kept), MaxResultRows)
    /\ \A k \in 1..Len(rows) : C39_Pos(rows[k]) \in kept /\ data[C39_Pos(rows[k])] = rows[k]
    /\ \A k \in 1..(Len(rows) - 1) : C39_Pos(rows[k]) < C39_Pos(rows[k + 1])
    /\ \A i \in kept \ {C39_Pos(rows[k]) : k \in 1..Len(rows)} :
          Len(rows) > 0 /\ C39_Pos(rows[Len(rows)]) < i
C39_LongDataCapped ==
    /\ C39_FirstKept(LongData, LongFiltered[SelectOrders],
                     C39_Kept(LongData, NoLimit, {}, {}))
    /\ C39_FirstKept(LongData, LongFiltered[SelectOrders \o LimitClause(MaxResultRows + 1)],
                     C39_Kept(LongData, MaxResultRows + 1, {}, {}))
    /\ C39_FirstKept(LongData, LongFiltered[CountryQueryOf(<<"F", "R", "A", "N", "C", "E">>, NoLimit)],
                     C39_Kept(LongData, NoLimit, {<<"F", "R", "A", "N", "C", "E">>}, {}))
    /\ C39_FirstKept(LongData, LongFiltered[FreightQueryOf(0, NoLimit)],
                     C39_Kept(LongData, NoLimit, {}, {0}))
    /\ C39_FirstKept(LongData, LongFiltered[FreightQueryOf(0, 5)],
                     C39_Kept(LongData, 5, {}, {0}))
    /\ C39_FirstKept(LongData, LongFiltered[FreightQueryOf(1, MaxResultRows + 1)],
                     C39_Kept(LongData, MaxResultRows + 1, {}, {1}))
    /\ \A query \in LongQueries : Len(LongFiltered[query]) <= MaxResultRows
C39_FiltersInOrder ==
    /\ C39_LongDataCapped
    /\ (currentResult # Null /\ currentResult.status = "success") =>
        /\ currentResult.rowCount = Len(currentResult.data)
        /\ Len(currentResult.data) <= MaxResultRows
        /\ \A n \in Limits :
              /\ \A c \in Countries :
                    currentResult.query = CountryQueryOf(c, n) =>
                        C39_FirstKept(Dataset, currentResult.data, C39_Kept(Dataset, n, {c}, {}))
              /\ \A t \in Thresholds :
                    currentResult.query = FreightQueryOf(t, n) =>
                        C39_FirstKept(Dataset, currentResult.data, C39_Kept(Dataset, n, {}, {t}))
              /\ \A c \in Countries, t \in Thresholds :
                    currentResult.query = BothQueryOf(c, t, n) =>
                        C39_FirstKept(Dataset, currentResult.data, C39_Kept(Dataset, n, {c}, {t}))

\* the query for France with freight over 100 has resolved with the one
\* such order, and the long dataset is cut to the first 1000 rows
C39_BothFiltersApplied ==
    /\ currentResult # Null
    /\ currentResult.status = "success"
    /\ currentResult.query = BothQueryOf(<<"F", "R", "A", "N", "C", "E">>, 100, NoLimit)
    /\ currentResult.data = <<Dataset[1]>>
    /\ Len(LongFiltered[SelectOrders]) = MaxResultRows
    /\ Len(LongData) > MaxResultRows

\* C40: whenever a result is displayed the current page is in range,
\* 1 <= currentPage <= max(1, totalPages), in every state: a step that
\* switches the displayed result to a new result leaves currentPage at 1,
\* and goToPage never leaves the range, whatever page it is given.
C40_PageInRange ==
    /\ [](currentResult # Null =>
            /\ 1 <= currentPage
            /\ currentPage <= Max(1, totalPages)
            /\ \A page \in PageArgs :
                  /\ 1 <= goToPage(page, totalPages)
                  /\ goToPage(page, totalPages) <= Max(1, totalPages))
    /\ [][(currentResult' # currentResult /\ currentResult' # Null) => currentPage' = 1]_vars

\* the last of several pages of a result is shown, one row to the page: the
\* page any shorter result shown next has to be brought back from
C40_OnLastOfManyPages ==
    /\ currentResult # Null
    /\ Len(currentResult.data) = MaxRows
    /\ rowsPerPage = 1
    /\ totalPages = MaxRows
    /\ currentPage = MaxRows
====
